---- MODULE Spec2Model ----
(***************************************************************************)
(* Arena.ai Plus (src/content.js): the model-name matcher, the pricing     *)
(* catalog adapters and the resolver built on them.                        *)
(*                                                                         *)
(* A JavaScript string is a sequence of one-character strings, so that the *)
(* regular expressions of ModelMatcher are modelled character by           *)
(* character.  A Map is a sequence of [key, entry] pairs in insertion      *)
(* order.                                                                  *)
(***************************************************************************)
EXTENDS Integers, Sequences, FiniteSets

VARIABLES
    provider,      \* PricingService.currentProvider
    rawData,       \* the fetched payload's entry list (response.json())
    pricingMap,    \* PricingService.pricingMap
    pc,            \* position inside PricingService / ModelMatcher.findMatch
    modelName,     \* argument of getPricing / findMatch
    normalized,    \* findMatch: const normalized
    attempts,      \* search terms handed to _findMatchInMap by the running findMatch
    result,        \* value returned by findMatch
    input,         \* argument(s) of the pure function applied last
    output,        \* its return value
    op,            \* which pure function was applied
    isLoading,     \* PricingService.isLoading
    requests,      \* the initialize / switchProvider calls, in call order
    event,         \* the event handler that ran last
    contextMap,        \* ContextService.contextMap
    contextIsLoading,  \* ContextService.isLoading
    rows,              \* the leaderboard rows and their injected cells
    battleNotificationEnabled,  \* the global of that name
    observer,          \* NotificationManager.observer is not null
    lastButtonState,   \* NotificationManager.lastButtonState
    votingButtonsVisible,  \* the document holds a voting button
    pendingMutations,  \* mutation records wait for the observer's callback
    appearance,        \* history of the voting buttons now displayed
    triggered,         \* number of _sendNotification calls so far
    permission,        \* Notification.permission
    visibilityState,   \* document.visibilityState
    title,             \* document.title
    flashes,           \* the running intervals of _flashTitle
    manager,           \* init()'s progress with notificationManager
    currentColumn,     \* SortManager.currentColumn
    currentDirection,  \* SortManager.currentDirection
    headerButtons,     \* SortManager.headerButtons: column type -> button
    tbody,             \* the rows of the table body, in document order
    streak,            \* toggleSort calls in a row since the unsorted state
    orderBefore,       \* the row order before the first toggle of the streak
    storedVisibility,  \* chrome.storage.sync: the column-visibility object
    currentColumnVisibility,  \* the global of that name
    display,           \* style.display of each injected column
    prefs              \* init()'s progress with the preferences

vars == <<provider, rawData, pricingMap, pc, modelName, normalized, attempts,
          result, input, output, op, isLoading, requests, event,
          contextMap, contextIsLoading, rows,
          battleNotificationEnabled, observer, lastButtonState,
          votingButtonsVisible, pendingMutations, appearance, triggered,
          permission, visibilityState, title, flashes, manager,
          currentColumn, currentDirection, headerButtons, tbody, streak,
          orderBefore, storedVisibility, currentColumnVisibility, display,
          prefs>>

matchVars == <<provider, rawData, pricingMap, pc, modelName, normalized,
               attempts, result>>
textVars == <<input, output, op>>
serviceVars == <<isLoading, requests, event>>
pageVars == <<contextMap, contextIsLoading, rows>>
notifyVars == <<battleNotificationEnabled, observer, lastButtonState,
                votingButtonsVisible, pendingMutations, appearance,
                triggered, permission, visibilityState, title, flashes,
                manager>>
sortVars == <<currentColumn, currentDirection, headerButtons, tbody, streak,
              orderBefore>>
prefVars == <<storedVisibility, currentColumnVisibility, display, prefs>>
uiVars == <<pageVars, notifyVars, sortVars, prefVars>>

\* document.title as the page set it, and as _flashTitle sets it
PageTitle == "Arena"
ReadyTitle == "Ready to Vote!"

\* the state of the page-side objects right after their construction
InitPageVars ==
    /\ contextMap = <<>>
    /\ contextIsLoading = FALSE
    /\ rows = <<>>

InitNotifyVars ==
    /\ battleNotificationEnabled = FALSE
    /\ observer = FALSE
    /\ lastButtonState = FALSE
    /\ votingButtonsVisible = FALSE
    /\ pendingMutations = FALSE
    /\ appearance = "none"
    /\ triggered = 0
    /\ permission = "default"
    /\ visibilityState = "visible"
    /\ title = PageTitle
    /\ flashes = <<>>
    /\ manager = "none"

\* the column types whose injected header has a sort button
SortColumns == {"pricing", "bfb"}

InitSortVars ==
    /\ currentColumn = "null"
    /\ currentDirection = "null"
    /\ headerButtons = [c \in SortColumns |-> 0]
    /\ tbody = <<>>
    /\ streak = 0
    /\ orderBefore = <<>>

\* the ids of the injected columns
InjectedColumns == {"pricing", "bang-for-buck", "context-window", "modalities"}

\* CONFIG.DEFAULT_COLUMN_VISIBILITY (the injected columns of it)
DEFAULT_COLUMN_VISIBILITY == [c \in InjectedColumns |-> TRUE]

InitPrefVars ==
    /\ storedVisibility = [absent |-> TRUE]
    /\ currentColumnVisibility = DEFAULT_COLUMN_VISIBILITY
    /\ display = [c \in InjectedColumns |-> ""]
    /\ prefs = "none"

InitUi == InitPageVars /\ InitNotifyVars /\ InitSortVars /\ InitPrefVars

(***************************************************************************)
(* Characters                                                              *)
(***************************************************************************)
Digits == {"0", "1", "2", "3", "4", "5", "6", "7", "8", "9"}

LowerLetters ==
    {"a", "b", "c", "d", "e", "f", "g", "h", "i", "j", "k", "l", "m",
     "n", "o", "p", "q", "r", "s", "t", "u", "v", "w", "x", "y", "z"}

UpperSeq ==
    <<"A", "B", "C", "D", "E", "F", "G", "H", "I", "J", "K", "L", "M",
      "N", "O", "P", "Q", "R", "S", "T", "U", "V", "W", "X", "Y", "Z">>

LowerSeq ==
    <<"a", "b", "c", "d", "e", "f", "g", "h", "i", "j", "k", "l", "m",
      "n", "o", "p", "q", "r", "s", "t", "u", "v", "w", "x", "y", "z">>

UpperLetters == {UpperSeq[i] : i \in 1..Len(UpperSeq)}

\* \w of a JavaScript regular expression
WordChars == Digits \cup LowerLetters \cup UpperLetters \cup {"_"}

\* \s of a JavaScript regular expression (the members the inputs use)
Whitespace == {" "}

\* str[pos] past the end of a string: undefined
NoChar == ""

\* a name field that is absent from a payload entry: undefined
Undefined == <<"undefined">>

At(s, i) == IF i >= 1 /\ i <= Len(s) THEN s[i] ELSE NoChar

IsDigit(c) == c \in Digits

ToLowerChar(c) ==
    IF c \in UpperLetters
    THEN LowerSeq[CHOOSE i \in 1..Len(UpperSeq) : UpperSeq[i] = c]
    ELSE c

\* String.prototype.toLowerCase
ToLowerCase(s) == [i \in 1..Len(s) |-> ToLowerChar(s[i])]

\* the literal w stands at position i of s
HasAt(s, i, w) ==
    /\ i >= 1
    /\ i + Len(w) - 1 <= Len(s)
    /\ \A j \in 1..Len(w) : s[i + j - 1] = w[j]

\* the same under the i flag (w is lower case)
HasAtCI(s, i, w) ==
    /\ i >= 1
    /\ i + Len(w) - 1 <= Len(s)
    /\ \A j \in 1..Len(w) : ToLowerChar(s[i + j - 1]) = w[j]

\* String.prototype.startsWith / includes
StartsWith(s, w) == HasAt(s, 1, w)

Includes(s, w) == \E i \in 1..(Len(s) + 1) : HasAt(s, i, w)

\* s.slice(from - 1), 1-based
SliceFrom(s, from) == SubSeq(s, from, Len(s))

\* number of digits standing at position i and after
RECURSIVE DigitRun(_, _)
DigitRun(s, i) == IF IsDigit(At(s, i)) THEN 1 + DigitRun(s, i + 1) ELSE 0

\* String.prototype.trim
RECURSIVE TrimLeft(_)
TrimLeft(s) ==
    IF s # <<>> /\ s[1] \in Whitespace THEN TrimLeft(SliceFrom(s, 2)) ELSE s

RECURSIVE TrimRight(_)
TrimRight(s) ==
    IF s # <<>> /\ s[Len(s)] \in Whitespace
    THEN TrimRight(SubSeq(s, 1, Len(s) - 1))
    ELSE s

Trim(s) == TrimRight(TrimLeft(s))

(***************************************************************************)
(* ModelMatcher.normalizeModelName                                         *)
(***************************************************************************)
\* .replace(/%3a/gi, ':')
RECURSIVE DecodeColon(_, _)
DecodeColon(s, i) ==
    IF i > Len(s) THEN <<>>
    ELSE IF HasAtCI(s, i, <<"%", "3", "a">>)
         THEN <<":">> \o DecodeColon(s, i + 3)
         ELSE <<s[i]>> \o DecodeColon(s, i + 1)

\* /(^|[^0-9])(\d)[-_](\d)(?![0-9])/ tried at position i: the length of the
\* text it consumes there, 0 when it does not match.  The ^ alternative
\* consumes nothing and matches at the start of the string only.
VersionMatchLen(s, i) ==
    IF /\ i = 1
       /\ IsDigit(At(s, 1))
       /\ At(s, 2) \in {"-", "_"}
       /\ IsDigit(At(s, 3))
       /\ ~IsDigit(At(s, 4))
    THEN 3
    ELSE IF /\ i <= Len(s)
            /\ ~IsDigit(At(s, i))
            /\ IsDigit(At(s, i + 1))
            /\ At(s, i + 2) \in {"-", "_"}
            /\ IsDigit(At(s, i + 3))
            /\ ~IsDigit(At(s, i + 4))
         THEN 4
         ELSE 0

\* .replace(/(^|[^0-9])(\d)[-_](\d)(?![0-9])/g, '$1$2.$3'): matches are
\* taken left to right and the scan resumes after the text a match consumed
RECURSIVE NormalizeVersions(_, _)
NormalizeVersions(s, i) ==
    IF i > Len(s) THEN <<>>
    ELSE LET n == VersionMatchLen(s, i) IN
         IF n = 3
         THEN <<s[i], ".", s[i + 2]>> \o NormalizeVersions(s, i + 3)
         ELSE IF n = 4
              THEN <<s[i], s[i + 1], ".", s[i + 3]>>
                       \o NormalizeVersions(s, i + 4)
              ELSE <<s[i]>> \o NormalizeVersions(s, i + 1)

\* .replace(/\s+/g, '-')
RECURSIVE CollapseWhitespace(_, _)
CollapseWhitespace(s, i) ==
    IF i > Len(s) THEN <<>>
    ELSE IF s[i] \in Whitespace
         THEN IF At(s, i + 1) \in Whitespace
              THEN CollapseWhitespace(s, i + 1)
              ELSE <<"-">> \o CollapseWhitespace(s, i + 1)
         ELSE <<s[i]>> \o CollapseWhitespace(s, i + 1)

normalizeModelName(name) ==
    IF name = Undefined \/ name = <<>> THEN <<>>
    ELSE Trim(CollapseWhitespace(
             NormalizeVersions(DecodeColon(ToLowerCase(name), 1), 1), 1))

(***************************************************************************)
(* Shared tails of _stripDates and _stripThinking                          *)
(***************************************************************************)
\* .replace(/--+/g, '-')
RECURSIVE CollapseDashes(_, _)
CollapseDashes(s, i) ==
    IF i > Len(s) THEN <<>>
    ELSE IF s[i] = "-" /\ At(s, i + 1) = "-"
         THEN CollapseDashes(s, i + 1)
         ELSE <<s[i]>> \o CollapseDashes(s, i + 1)

\* .replace(/[.-]$/, '')
DropTrailingSeparator(s) ==
    IF s # <<>> /\ s[Len(s)] \in {".", "-"}
    THEN SubSeq(s, 1, Len(s) - 1)
    ELSE s

(***************************************************************************)
(* ModelMatcher._stripSuffixes                                             *)
(***************************************************************************)
LitPreview == <<"p", "r", "e", "v", "i", "e", "w">>
LitBeta == <<"b", "e", "t", "a">>
LitLatest == <<"l", "a", "t", "e", "s", "t">>
LitThinking == <<"t", "h", "i", "n", "k", "i", "n", "g">>

\* (\b|$) behind a token that ends in a word character: the next character
\* is absent or is not a word character
TokenEndsAt(s, j) == At(s, j) \notin WordChars

\* [.-](preview|beta|latest|v\d+) at position i, without the trailing
\* (\b|$): the length of the text it covers, 0 when it does not stand there
SuffixWordLen(s, i) ==
    IF At(s, i) \notin {".", "-"} THEN 0
    ELSE IF HasAtCI(s, i + 1, LitPreview) THEN 1 + Len(LitPreview)
    ELSE IF HasAtCI(s, i + 1, LitBeta) THEN 1 + Len(LitBeta)
    ELSE IF HasAtCI(s, i + 1, LitLatest) THEN 1 + Len(LitLatest)
    ELSE IF ToLowerChar(At(s, i + 1)) = "v" /\ DigitRun(s, i + 2) >= 1
         THEN 2 + DigitRun(s, i + 2)
    ELSE 0

\* /[.-](preview|beta|latest|v\d+)(\b|$)/i tried at position i
SuffixTokenLen(s, i) ==
    LET n == SuffixWordLen(s, i) IN
    IF n > 0 /\ TokenEndsAt(s, i + n) THEN n ELSE 0

\* .replace(/[.-](preview|beta|latest|v\d+)(\b|$)/gi, '')
RECURSIVE RemoveSuffixTokens(_, _)
RemoveSuffixTokens(s, i) ==
    IF i > Len(s) THEN <<>>
    ELSE LET n == SuffixTokenLen(s, i) IN
         IF n > 0 THEN RemoveSuffixTokens(s, i + n)
         ELSE <<s[i]>> \o RemoveSuffixTokens(s, i + 1)

\* /[.-]\d{8}(\b|$)/ tried at position i
EightDigitTokenLen(s, i) ==
    IF /\ At(s, i) \in {".", "-"}
       /\ DigitRun(s, i + 1) >= 8
       /\ TokenEndsAt(s, i + 9)
    THEN 9 ELSE 0

\* .replace(/[.-]\d{8}(\b|$)/g, '')
RECURSIVE RemoveEightDigitTokens(_, _)
RemoveEightDigitTokens(s, i) ==
    IF i > Len(s) THEN <<>>
    ELSE IF EightDigitTokenLen(s, i) > 0
         THEN RemoveEightDigitTokens(s, i + 9)
         ELSE <<s[i]>> \o RemoveEightDigitTokens(s, i + 1)

_stripSuffixes(normalizedName) ==
    RemoveEightDigitTokens(RemoveSuffixTokens(normalizedName, 1), 1)

(***************************************************************************)
(* ModelMatcher._stripDates                                                *)
(***************************************************************************)
\* /[.-]20\d{6}(?=[.-]|$)/ tried at position i
DateTokenLen(s, i) ==
    IF /\ At(s, i) \in {".", "-"}
       /\ At(s, i + 1) = "2"
       /\ At(s, i + 2) = "0"
       /\ DigitRun(s, i + 3) >= 6
       /\ At(s, i + 9) \in {".", "-", NoChar}
    THEN 9 ELSE 0

\* .replace(/[.-]20\d{6}(?=[.-]|$)/g, ''): the lookahead consumes nothing
RECURSIVE RemoveDateTokens(_, _)
RemoveDateTokens(s, i) ==
    IF i > Len(s) THEN <<>>
    ELSE IF DateTokenLen(s, i) > 0
         THEN RemoveDateTokens(s, i + 9)
         ELSE <<s[i]>> \o RemoveDateTokens(s, i + 1)

_stripDates(normalizedName) ==
    Trim(DropTrailingSeparator(
        CollapseDashes(RemoveDateTokens(normalizedName, 1), 1)))

(***************************************************************************)
(* ModelMatcher._stripThinking                                             *)
(***************************************************************************)
\* position of the first ')' at or after j, 0 when there is none
RECURSIVE FirstCloseParen(_, _)
FirstCloseParen(s, j) ==
    IF j > Len(s) THEN 0
    ELSE IF s[j] = ")" THEN j
    ELSE FirstCloseParen(s, j + 1)

\* /\(thinking[^)]*\)/ tried at position i (no i flag)
ParenThinkingLen(s, i) ==
    IF HasAt(s, i, <<"(">> \o LitThinking)
       /\ FirstCloseParen(s, i + 9) > 0
    THEN FirstCloseParen(s, i + 9) - i + 1
    ELSE 0

\* .replace(/\(thinking[^)]*\)/g, '')
RECURSIVE RemoveParenThinking(_, _)
RemoveParenThinking(s, i) ==
    IF i > Len(s) THEN <<>>
    ELSE LET n == ParenThinkingLen(s, i) IN
         IF n > 0 THEN RemoveParenThinking(s, i + n)
         ELSE <<s[i]>> \o RemoveParenThinking(s, i + 1)

\* number of [a-z0-9] characters (i flag) standing at position j and after
RECURSIVE AlnumRun(_, _)
AlnumRun(s, j) ==
    IF At(s, j) \in (Digits \cup LowerLetters \cup UpperLetters)
    THEN 1 + AlnumRun(s, j + 1)
    ELSE 0

\* (-[a-z0-9]+)*$ matches the text from position j to the end
RECURSIVE QualifierGroupsToEnd(_, _)
QualifierGroupsToEnd(s, j) ==
    \/ j > Len(s)
    \/ /\ s[j] = "-"
       /\ AlnumRun(s, j + 1) >= 1
       /\ QualifierGroupsToEnd(s, j + 1 + AlnumRun(s, j + 1))

\* /[.-]thinking(-[a-z0-9]+)*$/i matches from position i
ThinkingSuffixAt(s, i) ==
    /\ At(s, i) \in {".", "-"}
    /\ HasAtCI(s, i + 1, LitThinking)
    /\ QualifierGroupsToEnd(s, i + 9)

\* .replace(/[.-]thinking(-[a-z0-9]+)*$/i, ''): the leftmost match only
RemoveThinkingSuffix(s) ==
    IF \E i \in 1..Len(s) : ThinkingSuffixAt(s, i)
    THEN LET first == CHOOSE i \in 1..Len(s) :
                        /\ ThinkingSuffixAt(s, i)
                        /\ \A j \in 1..(i - 1) : ~ThinkingSuffixAt(s, j)
         IN SubSeq(s, 1, first - 1)
    ELSE s

\* .replace(/[.-]thinking$/i, '')
RemoveBareThinkingSuffix(s) ==
    LET i == Len(s) - 8 IN
    IF i >= 1 /\ s[i] \in {".", "-"} /\ HasAtCI(s, i + 1, LitThinking)
    THEN SubSeq(s, 1, i - 1)
    ELSE s

_stripThinking(normalizedName) ==
    Trim(DropTrailingSeparator(CollapseDashes(
        RemoveBareThinkingSuffix(RemoveThinkingSuffix(
            RemoveParenThinking(normalizedName, 1))), 1)))

(***************************************************************************)
(* Map: a sequence of [key, entry] pairs in insertion order                *)
(***************************************************************************)
\* null
Null == [null |-> TRUE]

MapHas(map, k) == \E i \in 1..Len(map) : map[i].key = k

MapGet(map, k) ==
    IF MapHas(map, k)
    THEN map[CHOOSE i \in 1..Len(map) : map[i].key = k].entry
    ELSE Null

\* Map.prototype.set: a key already present keeps its position
MapSet(map, k, e) ==
    IF MapHas(map, k)
    THEN [i \in 1..Len(map) |->
             IF map[i].key = k THEN [key |-> k, entry |-> e] ELSE map[i]]
    ELSE Append(map, [key |-> k, entry |-> e])

MapKeys(map) == {map[i].key : i \in 1..Len(map)}

(***************************************************************************)
(* ModelMatcher._isVersionContinuation and _findMatchInMap                 *)
(***************************************************************************)
Separators == {"-", ".", "/", ":"}

\* a slip: only '.' counts as the separator of a version continuation
isVersionContinuation_DotOnly(str, pos, key) ==
    /\ At(str, pos + 1) = "."
    /\ IsDigit(At(str, pos + 2))
    /\ IsDigit(At(key, Len(key)))

\* pos is the 0-based index of the source: str[pos] is At(str, pos + 1)
_isVersionContinuation(str, pos, key) ==
    /\ At(str, pos + 1) \in {".", "-"}
    /\ IsDigit(At(str, pos + 2))
    /\ IsDigit(At(key, Len(key)))

\* a slip: >= for >, so the last of the longest operator keys wins
RECURSIVE OperatorScan_LastLongest(_, _, _, _, _)
OperatorScan_LastLongest(map, searchTerm, i, operatorMatch, operatorMatchLength) ==
    IF i > Len(map) THEN operatorMatch
    ELSE LET key == map[i].key
             entry == map[i].entry
             hit == \/ entry.operator = "includes" /\ Includes(searchTerm, key)
                    \/ entry.operator = "startsWith"
                           /\ StartsWith(searchTerm, key)
         IN IF hit /\ Len(key) >= operatorMatchLength
            THEN OperatorScan_LastLongest(map, searchTerm, i + 1, entry,
                                          Len(key))
            ELSE OperatorScan_LastLongest(map, searchTerm, i + 1,
                                          operatorMatch, operatorMatchLength)

\* the operator loop, from entry i on, with the loop's two locals
RECURSIVE OperatorScan(_, _, _, _, _)
OperatorScan(map, searchTerm, i, operatorMatch, operatorMatchLength) ==
    IF i > Len(map) THEN operatorMatch
    ELSE LET key == map[i].key
             entry == map[i].entry
             hit == \/ entry.operator = "includes" /\ Includes(searchTerm, key)
                    \/ entry.operator = "startsWith"
                           /\ StartsWith(searchTerm, key)
         IN IF hit /\ Len(key) > operatorMatchLength
            THEN OperatorScan(map, searchTerm, i + 1, entry, Len(key))
            ELSE OperatorScan(map, searchTerm, i + 1, operatorMatch,
                              operatorMatchLength)

\* a slip: '/' and ':' are missing from the separators of the prefix loop
PrefixAccepts_DashDotOnly(searchTerm, key) ==
    /\ StartsWith(searchTerm, key)
    /\ LET charAfterKey == At(searchTerm, Len(key) + 1) IN
       \/ charAfterKey = NoChar
       \/ /\ charAfterKey \in {"-", "."}
          /\ ~_isVersionContinuation(searchTerm, Len(key), key)

\* the test of the prefix loop on one key
PrefixAccepts(searchTerm, key) ==
    /\ StartsWith(searchTerm, key)
    /\ LET charAfterKey == At(searchTerm, Len(key) + 1) IN
       \/ charAfterKey = NoChar
       \/ /\ charAfterKey \in Separators
          /\ ~_isVersionContinuation(searchTerm, Len(key), key)

\* a slip: the length comparison is missing, so the first accepted key wins
RECURSIVE PrefixScan_FirstAccepted(_, _, _, _, _)
PrefixScan_FirstAccepted(map, searchTerm, i, bestMatch, bestMatchLength) ==
    IF i > Len(map) THEN bestMatch
    ELSE IF PrefixAccepts(searchTerm, map[i].key) /\ bestMatch = Null
         THEN PrefixScan_FirstAccepted(map, searchTerm, i + 1, map[i].entry,
                                       Len(map[i].key))
         ELSE PrefixScan_FirstAccepted(map, searchTerm, i + 1, bestMatch,
                                       bestMatchLength)

\* the prefix loop, from entry i on
RECURSIVE PrefixScan(_, _, _, _, _)
PrefixScan(map, searchTerm, i, bestMatch, bestMatchLength) ==
    IF i > Len(map) THEN bestMatch
    ELSE IF PrefixAccepts(searchTerm, map[i].key)
            /\ Len(map[i].key) > bestMatchLength
         THEN PrefixScan(map, searchTerm, i + 1, map[i].entry,
                         Len(map[i].key))
         ELSE PrefixScan(map, searchTerm, i + 1, bestMatch, bestMatchLength)

\* a slip: any character may follow the search term in the key
SuffixAccepts_AnyCharacter(searchTerm, key) ==
    /\ StartsWith(key, searchTerm)
    /\ Len(key) > Len(searchTerm)

\* the test of the suffix loop on one key
SuffixAccepts(searchTerm, key) ==
    /\ StartsWith(key, searchTerm)
    /\ At(key, Len(searchTerm) + 1) \in Separators

\* the suffix loop, from entry i on; shortestMatchLength starts at Infinity,
\* which every key length is below: that is the case shortestMatch = Null
RECURSIVE SuffixScan(_, _, _, _, _)
SuffixScan(map, searchTerm, i, shortestMatch, shortestMatchLength) ==
    IF i > Len(map) THEN shortestMatch
    ELSE IF SuffixAccepts(searchTerm, map[i].key)
            /\ (shortestMatch = Null
                \/ Len(map[i].key) < shortestMatchLength)
         THEN SuffixScan(map, searchTerm, i + 1, map[i].entry,
                         Len(map[i].key))
         ELSE SuffixScan(map, searchTerm, i + 1, shortestMatch,
                         shortestMatchLength)

\* stages 2 to 4, reached when the exact stage found no key
FuzzyStages(map, searchTerm, checkOperators) ==
    LET operatorMatch ==
            IF checkOperators
            THEN OperatorScan(map, searchTerm, 1, Null, 0)
            ELSE Null
        bestMatch == PrefixScan(map, searchTerm, 1, Null, 0)
    IN IF operatorMatch # Null THEN operatorMatch
       ELSE IF bestMatch # Null THEN bestMatch
       ELSE SuffixScan(map, searchTerm, 1, Null, 0)

\* a slip: the operator loop runs before the exact lookup
findMatchInMap_OperatorsFirst(map, searchTerm, checkOperators) ==
    LET operatorMatch ==
            IF checkOperators
            THEN OperatorScan(map, searchTerm, 1, Null, 0)
            ELSE Null
    IN IF operatorMatch # Null THEN operatorMatch
       ELSE IF MapHas(map, searchTerm) THEN MapGet(map, searchTerm)
       ELSE FuzzyStages(map, searchTerm, FALSE)

_findMatchInMap(map, searchTerm, checkOperators) ==
    IF MapHas(map, searchTerm) THEN MapGet(map, searchTerm)
    ELSE FuzzyStages(map, searchTerm, checkOperators)

(***************************************************************************)
(* ModelMatcher.findMatch                                                  *)
(***************************************************************************)
\* the five strategies of findMatch, in the order of its source text
Strategies == 1..5

\* a slip: the date strategy stands before the suffix strategy
SearchTerm_DatesBeforeSuffixes(k, n) ==
    CASE k = 1 -> n
      [] k = 2 -> _stripDates(n)
      [] k = 3 -> _stripSuffixes(n)
      [] k = 4 -> _stripThinking(n)
      [] k = 5 -> _stripThinking(_stripDates(n))

\* the search term strategy k computes from the normalized name
SearchTerm(k, n) ==
    CASE k = 1 -> n
      [] k = 2 -> _stripSuffixes(n)
      [] k = 3 -> _stripDates(n)
      [] k = 4 -> _stripThinking(n)
      [] k = 5 -> _stripThinking(_stripDates(n))

\* the if that guards strategy k's call of _findMatchInMap
ShouldTry(k, n) ==
    LET term == SearchTerm(k, n) IN
    CASE k = 1 -> TRUE
      [] k = 2 -> term # n
      [] k = 3 -> term # n /\ Len(term) > 0
      [] k = 4 -> term # n /\ Len(term) > 0
      [] k = 5 -> /\ term # n
                  /\ term # _stripDates(n)
                  /\ term # _stripThinking(n)
                  /\ Len(term) > 0

\* findMatch from strategy k on: the first guarded attempt that succeeds
RECURSIVE FindMatchFrom(_, _, _, _)
FindMatchFrom(map, n, checkOperators, k) ==
    IF k \notin Strategies THEN Null
    ELSE LET found == IF ShouldTry(k, n)
                      THEN _findMatchInMap(map, SearchTerm(k, n),
                                           checkOperators)
                      ELSE Null
         IN IF found # Null THEN found
            ELSE FindMatchFrom(map, n, checkOperators, k + 1)

findMatch(map, name, checkOperators) ==
    FindMatchFrom(map, normalizeModelName(name), checkOperators, 1)

(***************************************************************************)
(* PricingService: the three adapters                                      *)
(*                                                                         *)
(* A payload entry is a record                                             *)
(*   model          entry.model / the LiteLLM object key / model.id        *)
(*                  (Undefined when the field is absent)                   *)
(*   pricing        OpenRouter: whether model.pricing is present           *)
(*   input, output  input_cost_per_1m / input_cost_per_token /             *)
(*                  pricing.prompt, and the output counterparts            *)
(*                  (0 when absent)                                        *)
(*   operator       Helicone's entry.operator ("" when absent)             *)
(*   context_length max_input_tokens || max_tokens / context_length        *)
(*                  (0 when absent)                                        *)
(***************************************************************************)
Providers == {"helicone", "litellm", "openrouter"}

PerMillion == 1000000

\* position of the last '/' of key, 0 when it has none
LastSlash(key) ==
    IF \E i \in 1..Len(key) : key[i] = "/"
    THEN CHOOSE i \in 1..Len(key) :
            key[i] = "/" /\ \A j \in (i + 1)..Len(key) : key[j] # "/"
    ELSE 0

\* key.split('/').pop()
ShortKey(key) == SliceFrom(key, LastSlash(key) + 1)

\* a slip: the full key is set without the has() test, the short key is
\* guarded
InsertPricing_FullKeyOverwrites(map, key, pricing) ==
    LET withKey == MapSet(map, key, pricing)
        shortKey == ShortKey(key)
    IN IF shortKey # <<>> /\ shortKey # key /\ ~MapHas(withKey, shortKey)
       THEN MapSet(withKey, shortKey, pricing)
       ELSE withKey

\* a slip: set() without the has() tests, so a later entry overwrites
InsertPricing_Overwrite(map, key, pricing) ==
    LET withKey == MapSet(map, key, pricing)
        shortKey == ShortKey(key)
    IN IF shortKey # <<>> /\ shortKey # key
       THEN MapSet(withKey, shortKey, pricing)
       ELSE withKey

\* a slip: the short key is not inserted
InsertPricing_NoShortKey(map, key, pricing) ==
    IF ~MapHas(map, key) THEN MapSet(map, key, pricing) ELSE map

\* the two guarded set() calls that end each adapter's loop body
InsertPricing(map, key, pricing) ==
    LET withKey == IF ~MapHas(map, key) THEN MapSet(map, key, pricing)
                   ELSE map
        shortKey == ShortKey(key)
    IN IF shortKey # <<>> /\ shortKey # key /\ ~MapHas(withKey, shortKey)
       THEN MapSet(withKey, shortKey, pricing)
       ELSE withKey

\* the pricing object _buildHeliconeMap makes of an entry
HeliconePricing(entry) ==
    [input_cost_per_1m |-> entry.input,
     output_cost_per_1m |-> entry.output,
     operator |-> IF entry.operator = "" THEN "equals" ELSE entry.operator,
     sourceModelName |-> entry.model]

\* the pricing object _buildLiteLLMMap makes of an entry
LiteLLMPricing(entry) ==
    [input_cost_per_1m |-> entry.input * PerMillion,
     output_cost_per_1m |-> entry.output * PerMillion,
     operator |-> "equals",
     sourceModelName |-> entry.model,
     context_length |-> entry.context_length]

\* the pricing object _buildOpenRouterMap makes of an entry
OpenRouterPricing(entry) ==
    [input_cost_per_1m |-> entry.input * PerMillion,
     output_cost_per_1m |-> entry.output * PerMillion,
     operator |-> "equals",
     sourceModelName |-> entry.model,
     context_length |-> entry.context_length]

LitSampleSpec == <<"s", "a", "m", "p", "l", "e", "_", "s", "p", "e", "c">>

\* whether the adapter's loop body reaches its set() calls for the entry
\* (no continue before them)
Inserts(prov, entry) ==
    CASE prov = "helicone" -> TRUE
      [] prov = "litellm" ->
            /\ entry.model # LitSampleSpec
            /\ ~(entry.input = 0 /\ entry.output = 0)
      [] prov = "openrouter" ->
            /\ entry.model # Undefined /\ entry.model # <<>>
            /\ entry.pricing

PricingOf(prov, entry) ==
    CASE prov = "helicone" -> HeliconePricing(entry)
      [] prov = "litellm" -> LiteLLMPricing(entry)
      [] prov = "openrouter" -> OpenRouterPricing(entry)

\* one iteration of the adapter's loop
AddEntry(map, prov, entry) ==
    IF Inserts(prov, entry)
    THEN InsertPricing(map, normalizeModelName(entry.model),
                       PricingOf(prov, entry))
    ELSE map

\* the adapter's loop over the entries, from entry i on
RECURSIVE BuildFrom(_, _, _, _)
BuildFrom(map, prov, entries, i) ==
    IF i > Len(entries) THEN map
    ELSE BuildFrom(AddEntry(map, prov, entries[i]), prov, entries, i + 1)

_buildHeliconeMap(map, data) == BuildFrom(map, "helicone", data, 1)

_buildLiteLLMMap(map, data) == BuildFrom(map, "litellm", data, 1)

_buildOpenRouterMap(map, data) == BuildFrom(map, "openrouter", data, 1)

\* this.pricingMap.clear() and the switch on the provider
_buildPricingMap(data, prov) ==
    CASE prov = "helicone" -> _buildHeliconeMap(<<>>, data)
      [] prov = "litellm" -> _buildLiteLLMMap(<<>>, data)
      [] prov = "openrouter" -> _buildOpenRouterMap(<<>>, data)
      [] OTHER -> <<>>

\* PricingService.getPricing
getPricing(map, name) == findMatch(map, name, TRUE)

(***************************************************************************)
(* PricingService: initialize, switchProvider and _fetchPricing            *)
(*                                                                         *)
(* A fetched payload (response.json()) is a record                         *)
(*   shape    "array"       [ ...entries ]                                 *)
(*            "dataArray"   { data: [ ...entries ] }                       *)
(*            "object"      an object without a data field; for LiteLLM    *)
(*                          its own fields are the entries                 *)
(*            "dataObject"  { data: { } }, a data field that is no list    *)
(*            "null"        null                                           *)
(*   entries  the entries, in order                                        *)
(* A response is a record [kind, data] with kind "ok", "httpError"         *)
(* (response.ok is false) or "networkError" (fetch rejects).               *)
(***************************************************************************)
NoData == [shape |-> "none", entries |-> <<>>]

\* a fetch that has not settled yet
InFlight == [kind |-> "inflight", data |-> NoData]

\* no fetch was started: CONFIG.PROVIDERS has no such provider
NoFetch == [kind |-> "noFetch", data |-> NoData]

\* a slip: switchProvider leaves the previous records in the map
clear_KeepsRecords(map) == map

\* this.pricingMap.clear() of switchProvider
clear(map) == <<>>

\* the list an adapter iterates over, or threw when reading it raises a
\* TypeError: data.data on null, Object.entries(null), for-of over an
\* object that is no list
EntriesIn(data, prov) ==
    LET list(l) == [entries |-> l, threw |-> FALSE]
        throw == [entries |-> <<>>, threw |-> TRUE]
    IN CASE prov = "helicone" ->
                IF data.shape = "null" THEN throw
                ELSE IF data.shape \in {"array", "dataArray"}
                     THEN list(data.entries)
                     ELSE list(<<>>)
         [] prov = "litellm" ->
                IF data.shape = "null" THEN throw
                ELSE IF data.shape = "object" THEN list(data.entries)
                ELSE list(<<>>)
         [] prov = "openrouter" ->
                IF data.shape \in {"null", "dataObject"} THEN throw
                ELSE IF data.shape = "dataArray" THEN list(data.entries)
                ELSE list(<<>>)
         [] OTHER -> list(<<>>)

\* _buildPricingMap on a payload: the map it leaves, and whether it threw
\* (the map was cleared before the adapter ran)
BuildResult(data, prov) ==
    LET found == EntriesIn(data, prov) IN
    IF found.threw
    THEN [map |-> <<>>, threw |-> TRUE]
    ELSE [map |-> _buildPricingMap(found.entries, prov), threw |-> FALSE]

\* a slip: no try/catch around the fetch and the build
fetchPricing_NoCatch(map, prov, response) ==
    IF prov \notin Providers THEN [map |-> map, error |-> "none"]
    ELSE IF response.kind # "ok" THEN [map |-> map, error |-> "escaped"]
    ELSE LET built == BuildResult(response.data, prov)
         IN [map |-> built.map,
             error |-> IF built.threw THEN "escaped" ELSE "none"]

\* _fetchPricing: the map it leaves and the error that escapes it; every
\* throw happens inside its try block
_fetchPricing(map, prov, response) ==
    IF prov \notin Providers THEN [map |-> map, error |-> "none"]
    ELSE IF response.kind # "ok" THEN [map |-> map, error |-> "none"]
    ELSE [map |-> BuildResult(response.data, prov).map, error |-> "none"]

(***************************************************************************)
(* The payloads and the leaderboard names the model is run on              *)
(***************************************************************************)
\* most entries of a fetched payload
MaxEntries == 2

NameGpt == <<"g", "p", "t">>
NameGpt4 == <<"g", "p", "t", "-", "4">>
NameGpt45 == <<"g", "p", "t", "-", "4", ".", "5">>
NameOpenAIGpt45 == <<"o", "p", "e", "n", "a", "i", "/", "g", "p", "t", "-", "4", ".", "5">>
NameGpt4Preview == <<"g", "p", "t", "-", "4", "-", "p", "r", "e", "v", "i", "e", "w">>

Name45 == <<"4", ".", "5">>
NameGpt4o == <<"g", "p", "t", "-", "4", "o">>

ModelNames == {NameGpt, NameGpt4, NameGpt45, NameOpenAIGpt45, NameGpt4Preview}

Entry(model, pricing, inCost, outCost, operator) ==
    [model |-> model, pricing |-> pricing, input |-> inCost,
     output |-> outCost, operator |-> operator, context_length |-> 0]

\* Helicone entries: plain ones, three with a matching operator (two of
\* them under keys of one length), one that lacks its model field
HeliconeEntries ==
    {Entry(m, TRUE, 1, 2, "") : m \in {NameGpt4, NameGpt45, NameOpenAIGpt45}}
        \cup {Entry(NameGpt, TRUE, 1, 2, "includes"),
              Entry(Name45, TRUE, 1, 2, "includes"),
              Entry(NameGpt4, TRUE, 1, 2, "startsWith"),
              Entry(Undefined, TRUE, 1, 2, "")}

\* LiteLLM entries: plain ones, the sample_spec key, one without costs
LiteLLMEntries ==
    {Entry(m, TRUE, 1, 2, "") : m \in {NameGpt4, NameGpt45, NameOpenAIGpt45}}
        \cup {Entry(LitSampleSpec, TRUE, 1, 2, ""),
              Entry(NameGpt4, TRUE, 0, 0, "")}

\* OpenRouter entries: plain ones, one without id, one without pricing
OpenRouterEntries ==
    {Entry(m, TRUE, 1, 2, "") : m \in ModelNames \cup {NameGpt4o}}
        \cup {Entry(Undefined, TRUE, 1, 2, ""),
              Entry(NameGpt4, FALSE, 0, 0, "")}

EntriesOf(prov) ==
    CASE prov = "helicone" -> HeliconeEntries
      [] prov = "litellm" -> LiteLLMEntries
      [] prov = "openrouter" -> OpenRouterEntries

\* the entry lists a payload of the provider can hold; the LiteLLM payload
\* is an object, so its keys are distinct
Payloads(prov) ==
    {l \in UNION {[1..n -> EntriesOf(prov)] : n \in 0..MaxEntries} :
        prov = "litellm" =>
            \A i, j \in 1..Len(l) : i # j => l[i].model # l[j].model}

BaseGpt == <<"g", "p", "t">>
BaseGpt4 == <<"g", "p", "t", "-", "4">>
BaseGpt45Dashed == <<"g", "p", "t", "-", "4", "-", "5">>
BaseOpenAIGpt45 == <<"o", "p", "e", "n", "a", "i", "/", "g", "p", "t", "-", "4", ".", "5">>

QueryBases == {BaseGpt, BaseGpt4, BaseGpt45Dashed, BaseOpenAIGpt45}

\* what a leaderboard row appends to a model name
QuerySuffixes ==
    {<<>>,
     <<".", "1">>,
     <<"-", "1", "0">>,
     <<"-", "p", "r", "e", "v", "i", "e", "w">>,
     <<"-", "m", "i", "n", "i">>,
     <<":", "f", "r", "e", "e">>,
     <<"-", "2", "0", "2", "5", "0", "9", "2", "9">>,
     <<"-", "t", "h", "i", "n", "k", "i", "n", "g">>,
     <<"-", "2", "0", "2", "5", "0", "9", "2", "9", "-", "t", "h", "i", "n", "k", "i", "n", "g">>,
     <<"-", "2", "0", "2", "5", "0", "9", "2", "9", "-", "t", "h", "i", "n", "k", "i", "n", "g", "-", "3", "2", "k">>,
     <<"-", "2", "0", "2", "5", "0", "9", "2", "9", "-", "p", "r", "e", "v", "i", "e", "w">>,
     <<".", "1", "-", "p", "r", "e", "v", "i", "e", "w">>,
     <<".", "1", "-", "t", "h", "i", "n", "k", "i", "n", "g">>}

\* the leaderboard's display names
Queries == {b \o x : b \in QueryBases, x \in QuerySuffixes}

(***************************************************************************)
(* Spec: a payload is built into the pricing map, then getPricing resolves *)
(* a display name, one strategy of findMatch per step                      *)
(***************************************************************************)
TryPc == <<"try1", "try2", "try3", "try4", "try5">>

Init ==
    /\ provider \in Providers
    /\ rawData \in Payloads(provider)
    /\ pricingMap = <<>>
    /\ pc = "start"
    /\ modelName = <<>>
    /\ normalized = <<>>
    /\ attempts = <<>>
    /\ result = Null
    /\ input = <<>>
    /\ output = <<>>
    /\ op = "none"
    /\ isLoading = FALSE
    /\ requests = <<>>
    /\ event = Null
    /\ InitUi

\* PricingService.initialize with a fetch that succeeds
Initialize ==
    /\ pc = "start"
    /\ pricingMap' = _buildPricingMap(rawData, provider)
    /\ pc' = "ready"
    /\ UNCHANGED <<provider, rawData, modelName, normalized, attempts,
                   result>>
    /\ UNCHANGED <<textVars, serviceVars, uiVars>>

\* getPricing(name) enters findMatch
GetPricing(name) ==
    /\ pc = "ready"
    /\ modelName' = name
    /\ normalized' = normalizeModelName(name)
    /\ attempts' = <<>>
    /\ result' = Null
    /\ pc' = TryPc[1]
    /\ UNCHANGED <<provider, rawData, pricingMap>>
    /\ UNCHANGED <<textVars, serviceVars, uiVars>>

\* strategy k of findMatch: its guard, its call of _findMatchInMap and the
\* return when that found an entry
TryStrategy(k) ==
    /\ pc = TryPc[k]
    /\ LET tried == ShouldTry(k, normalized)
           term == SearchTerm(k, normalized)
           found == IF tried THEN _findMatchInMap(pricingMap, term, TRUE)
                    ELSE Null
       IN /\ attempts' = IF tried THEN Append(attempts, term) ELSE attempts
          /\ IF found # Null
             THEN result' = found /\ pc' = "done"
             ELSE IF k = 5
                  THEN result' = Null /\ pc' = "done"
                  ELSE result' = result /\ pc' = TryPc[k + 1]
    /\ UNCHANGED <<provider, rawData, pricingMap, modelName, normalized>>
    /\ UNCHANGED <<textVars, serviceVars, uiVars>>

TryNormalized == TryStrategy(1)

TryWithoutSuffix == TryStrategy(2)

TryWithoutDates == TryStrategy(3)

TryWithoutThinking == TryStrategy(4)

TryWithoutDatesAndThinking == TryStrategy(5)

Next ==
    \/ Initialize
    \/ \E name \in Queries : GetPricing(name)
    \/ TryNormalized
    \/ TryWithoutSuffix
    \/ TryWithoutDates
    \/ TryWithoutThinking
    \/ TryWithoutDatesAndThinking

Spec == Init /\ [][Next]_vars

(***************************************************************************)
(* SpecText: the string functions of ModelMatcher applied to a drawn       *)
(* string.  normalizeModelName is applied first; the derived functions and *)
(* a second normalizeModelName are applied to its output.                  *)
(***************************************************************************)
\* longest string drawn character by character
MaxChars == 5

\* most tokens of a string drawn token by token
MaxTokens == 4

TextAlphabet == {"a", "1", "2", "-", " "}

TextTokens ==
    {<<"g", "p", "t">>,
     <<"-">>,
     <<".">>,
     <<"-", "p", "r", "e", "v", "i", "e", "w">>,
     <<"-", "v", "1">>,
     <<"-", "2", "0", "2", "5", "0", "9", "2", "9">>,
     <<"-", "t", "h", "i", "n", "k", "i", "n", "g">>,
     <<"(", "t", "h", "i", "n", "k", "i", "n", "g", ")">>,
     <<"-", "3", "2", "k">>}

RECURSIVE Flatten(_)
Flatten(ts) == IF ts = <<>> THEN <<>> ELSE Head(ts) \o Flatten(Tail(ts))

CharStrings == UNION {[1..n -> TextAlphabet] : n \in 0..MaxChars}

TokenStrings ==
    {Flatten(ts) : ts \in UNION {[1..n -> TextTokens] : n \in 0..MaxTokens}}

TextInputs == CharStrings \cup TokenStrings

InitText ==
    /\ input \in TextInputs
    /\ output = <<>>
    /\ op = "none"
    /\ provider = "openrouter"
    /\ rawData = <<>>
    /\ pricingMap = <<>>
    /\ pc = "text"
    /\ modelName = <<>>
    /\ normalized = <<>>
    /\ attempts = <<>>
    /\ result = Null
    /\ isLoading = FALSE
    /\ requests = <<>>
    /\ event = Null
    /\ InitUi

Normalize ==
    /\ op = "none"
    /\ output' = normalizeModelName(input)
    /\ op' = "normalizeModelName"
    /\ UNCHANGED input
    /\ UNCHANGED <<matchVars, serviceVars, uiVars>>

NormalizeAgain ==
    /\ op = "normalizeModelName"
    /\ input' = output
    /\ output' = normalizeModelName(output)
    /\ op' = "normalizeModelName again"
    /\ UNCHANGED <<matchVars, serviceVars, uiVars>>

StripSuffixes ==
    /\ op = "normalizeModelName"
    /\ input' = output
    /\ output' = _stripSuffixes(output)
    /\ op' = "_stripSuffixes"
    /\ UNCHANGED <<matchVars, serviceVars, uiVars>>

StripDates ==
    /\ op = "normalizeModelName"
    /\ input' = output
    /\ output' = _stripDates(output)
    /\ op' = "_stripDates"
    /\ UNCHANGED <<matchVars, serviceVars, uiVars>>

StripThinking ==
    /\ op = "normalizeModelName"
    /\ input' = output
    /\ output' = _stripThinking(output)
    /\ op' = "_stripThinking"
    /\ UNCHANGED <<matchVars, serviceVars, uiVars>>

NextText ==
    \/ Normalize
    \/ NormalizeAgain
    \/ StripSuffixes
    \/ StripDates
    \/ StripThinking

SpecText == InitText /\ [][NextText]_vars

(***************************************************************************)
(* Claims about the string functions (SpecText)                            *)
(***************************************************************************)
\* what each derived function is documented to remove
HasSuffixPattern(s) ==
    \E i \in 1..Len(s) :
        SuffixTokenLen(s, i) > 0 \/ EightDigitTokenLen(s, i) > 0

HasDatePattern(s) == \E i \in 1..Len(s) : DateTokenLen(s, i) > 0

HasThinkingPattern(s) ==
    \E i \in 1..Len(s) : ParenThinkingLen(s, i) > 0 \/ ThinkingSuffixAt(s, i)

IsPrefixOf(p, s) == Len(p) <= Len(s) /\ SubSeq(s, 1, Len(p)) = p

\* C7: normalizeModelName is idempotent: applied to its own output it
\* returns that output unchanged.
C7_NormalizeIdempotent ==
    op = "normalizeModelName again" => output = input

\* C8: each derived function returns its (normalized) input unchanged when
\* the input holds no occurrence of the function's own pattern.
C8_NoOpWhenPatternAbsent ==
    /\ op = "_stripSuffixes" /\ ~HasSuffixPattern(input) => output = input
    /\ op = "_stripDates" /\ ~HasDatePattern(input) => output = input
    /\ op = "_stripThinking" /\ ~HasThinkingPattern(input) => output = input

\* C9: _stripSuffixes removes trailing tokens only: its output is a prefix
\* of its (normalized) input.
C9_StripSuffixesKeepsPrefix ==
    op = "_stripSuffixes" => IsPrefixOf(output, input)

(***************************************************************************)
(* Claims about the resolver and the adapters (Spec)                       *)
(***************************************************************************)
Min(S) == CHOOSE x \in S : \A y \in S : x <= y

\* the five variants of a normalized name, as the specification lists them
VariantsOf(n) ==
    <<n, _stripSuffixes(n), _stripDates(n), _stripThinking(n),
      _stripThinking(_stripDates(n))>>

\* the inner matching procedure as getPricing runs it
InnerMatch(term) == _findMatchInMap(pricingMap, term, TRUE)

\* C1: when the pricing map holds a key equal to the normalized query,
\* getPricing returns that key's record, whatever Includes or StartsWith
\* records the map also holds and wherever they were inserted.
C1_ExactPrecedesOperators ==
    pc = "done" /\ MapHas(pricingMap, normalized)
        => result = MapGet(pricingMap, normalized)

\* an exact key was resolved although an Includes or StartsWith record,
\* inserted before it, matches the query as well
C1_Witness ==
    /\ pc = "done"
    /\ \E i, j \in 1..Len(pricingMap) :
          /\ i < j
          /\ pricingMap[j].key = normalized
          /\ result = pricingMap[j].entry
          /\ pricingMap[i].entry # result
          /\ \/ pricingMap[i].entry.operator = "includes"
                    /\ Includes(normalized, pricingMap[i].key)
             \/ pricingMap[i].entry.operator = "startsWith"
                    /\ StartsWith(normalized, pricingMap[i].key)

\* the query continues key k with '.' or '-' and a version number that is
\* not an 8-digit token
ContinuesVersion(n, k) ==
    /\ IsDigit(At(k, Len(k)))
    /\ StartsWith(n, k)
    /\ At(n, Len(k) + 1) \in {".", "-"}
    /\ DigitRun(n, Len(k) + 2) >= 1
    /\ DigitRun(n, Len(k) + 2) # 8

AcceptedPrefix(n, k) ==
    /\ StartsWith(n, k)
    /\ \/ Len(n) = Len(k)
       \/ /\ At(n, Len(k) + 1) \in {"-", ".", "/", ":"}
          /\ ~(/\ At(n, Len(k) + 1) \in {".", "-"}
               /\ IsDigit(At(n, Len(k) + 2))
               /\ IsDigit(At(k, Len(k))))

\* the query is key k, a separator and a qualifier that starts with no digit
KeyPlusQualifier(n, k) ==
    /\ StartsWith(n, k)
    /\ Len(n) >= Len(k) + 2
    /\ At(n, Len(k) + 1) \in {"-", ".", "/", ":"}
    /\ ~IsDigit(At(n, Len(k) + 2))

\* some Includes or StartsWith record matches the term
OperatorMatches(n) ==
    \E i \in 1..Len(pricingMap) :
        \/ pricingMap[i].entry.operator = "includes"
               /\ Includes(n, pricingMap[i].key)
        \/ pricingMap[i].entry.operator = "startsWith"
               /\ StartsWith(n, pricingMap[i].key)

\* the query is key i of the map plus a qualifier, and neither an exact key,
\* nor an operator record, nor a longer accepted prefix stands in the way
ResolvesByQualifier(i) ==
    /\ KeyPlusQualifier(normalized, pricingMap[i].key)
    /\ ~MapHas(pricingMap, normalized)
    /\ ~OperatorMatches(normalized)
    /\ \A j \in 1..Len(pricingMap) :
          Len(pricingMap[j].key) > Len(pricingMap[i].key)
              => ~AcceptedPrefix(normalized, pricingMap[j].key)

LitDate == <<"-", "2", "0", "2", "5", "0", "9", "2", "9">>

ThinkingQualifiers ==
    {<<"-">> \o LitThinking,
     <<"-">> \o LitThinking \o <<"-", "3", "2", "k">>}

\* C4: for a map that holds key k, the query made of k's name, an 8-digit
\* 20xx date token and a '-thinking' or '-thinking-<token>' qualifier
\* resolves to k's record, also when k ends in a digit.  Stated for the
\* maps of Equals records, where no operator record can take the query.
C4_DatedThinkingResolvesToKey ==
    pc = "done" /\ ~OperatorMatches(normalized)
        => \A i \in 1..Len(pricingMap) : \A q \in ThinkingQualifiers :
              normalized = pricingMap[i].key \o LitDate \o q
                  => result = pricingMap[i].entry

\* the keys an entry of the payload gives rise to
KeysOfEntry(entry) ==
    LET key == normalizeModelName(entry.model) IN
    {key} \cup (IF ShortKey(key) # <<>> THEN {ShortKey(key)} ELSE {})

\* the entries of the payload that are inserted and give rise to key k
Producers(k) ==
    {j \in 1..Len(rawData) :
        Inserts(provider, rawData[j]) /\ k \in KeysOfEntry(rawData[j])}

HasSlash(name) == \E i \in 1..Len(name) : name[i] = "/"

\* C5: for every adapter, an inserted entry named 'vendor/model' is
\* resolvable by the full name and by the bare name after the last '/';
\* when no earlier entry produced the queried key, the result is that
\* entry's record.
C5_ShortKeyFallback ==
    pc = "done"
        => \A j \in 1..Len(rawData) :
              LET entry == rawData[j]
                  key == normalizeModelName(entry.model)
              IN /\ Inserts(provider, entry)
                 /\ HasSlash(key)
                 /\ ShortKey(key) # <<>>
                 /\ normalized \in {key, ShortKey(key)}
                 => /\ result # Null
                    /\ Min(Producers(normalized)) = j
                           => result = PricingOf(provider, entry)

\* the bare name was resolved to the record of the 'vendor/model' entry
C5_Witness ==
    /\ pc = "done"
    /\ provider = "litellm"
    /\ \E j \in 1..Len(rawData) :
          /\ Inserts(provider, rawData[j])
          /\ HasSlash(rawData[j].model)
          /\ normalized = ShortKey(normalizeModelName(rawData[j].model))
          /\ result = PricingOf(provider, rawData[j])

\* C6: in a built map each key occurs once and maps to the record of the
\* first payload entry (in list order) that produced it, as full or as
\* short key; the keys stand in the order in which they were first
\* produced, and every produced key is present.
C6_FirstWriterWins ==
    pc = "ready"
        => /\ \A i, j \in 1..Len(pricingMap) :
                 i # j => pricingMap[i].key # pricingMap[j].key
           /\ \A i \in 1..Len(pricingMap) :
                 /\ Producers(pricingMap[i].key) # {}
                 /\ pricingMap[i].entry =
                        PricingOf(provider,
                                  rawData[Min(Producers(pricingMap[i].key))])
           /\ \A i, j \in 1..Len(pricingMap) :
                 i < j => Min(Producers(pricingMap[i].key))
                              <= Min(Producers(pricingMap[j].key))
           /\ \A j \in 1..Len(rawData) :
                 Inserts(provider, rawData[j])
                     => KeysOfEntry(rawData[j]) \subseteq MapKeys(pricingMap)

\* two inserted entries with different records produced one key, and the
\* map holds the record of the first
C6_Witness ==
    /\ pc = "ready"
    /\ \E i \in 1..Len(pricingMap) : \E j, k \in Producers(pricingMap[i].key) :
          /\ j < k
          /\ PricingOf(provider, rawData[j]) # PricingOf(provider, rawData[k])
          /\ pricingMap[i].entry = PricingOf(provider, rawData[j])

\* the results of the inner matching procedure on the five variants
VariantResults(n) ==
    LET variants == VariantsOf(n) IN [k \in 1..5 |-> InnerMatch(variants[k])]

\* the result of the first of the five variants whose inner matching
\* succeeds, none when none does
FirstSucceeding(n) ==
    LET results == VariantResults(n)
        hits == {k \in 1..5 : results[k] # Null}
    IN IF hits = {} THEN Null ELSE results[Min(hits)]

\* C10: findMatch tries the variants in the order plain, stripSuffixes,
\* stripDates, stripThinking, stripDates-then-stripThinking and returns the
\* result of the first variant whose inner matching succeeds; it makes at
\* most five attempts, each after the earlier ones failed, and returns
\* none when no variant succeeds.
C10_FirstSucceedingVariantWins ==
    pc = "done"
        => LET variants == VariantsOf(normalized) IN
           /\ result = FirstSucceeding(normalized)
           /\ Len(attempts) <= 5
           /\ \E f \in [1..Len(attempts) -> 1..5] :
                 /\ \A i, j \in 1..Len(attempts) : i < j => f[i] < f[j]
                 /\ \A i \in 1..Len(attempts) : attempts[i] = variants[f[i]]
           /\ \A i \in 1..(Len(attempts) - 1) : InnerMatch(attempts[i]) = Null
           /\ result # Null
                  => /\ attempts # <<>>
                     /\ result = InnerMatch(attempts[Len(attempts)])

\* the stripSuffixes variant was returned although a later variant matches
\* a different record
C10_Witness ==
    /\ pc = "done"
    /\ result # Null
    /\ Len(attempts) = 2
    /\ attempts[2] = _stripSuffixes(normalized)
    /\ LET results == VariantResults(normalized) IN
       \E k \in 3..5 : results[k] # Null /\ results[k] # result

(***************************************************************************)
(* Claims about the stages of _findMatchInMap (Spec)                       *)
(***************************************************************************)
\* the entries the operator stage considers for a term, in the claim's words
OperatorCandidates(term) ==
    {i \in 1..Len(pricingMap) :
        \/ pricingMap[i].entry.operator = "includes"
               /\ Includes(term, pricingMap[i].key)
        \/ pricingMap[i].entry.operator = "startsWith"
               /\ StartsWith(term, pricingMap[i].key)}

\* the first inserted among the members of S with the longest key
FirstLongest(S) ==
    Min({i \in S : \A j \in S : Len(pricingMap[j].key) <= Len(pricingMap[i].key)})

AcceptedPrefixes(term) ==
    {i \in 1..Len(pricingMap) : AcceptedPrefix(term, pricingMap[i].key)}

AcceptedSuffixes(term) ==
    {i \in 1..Len(pricingMap) :
        /\ StartsWith(pricingMap[i].key, term)
        /\ At(pricingMap[i].key, Len(term) + 1) \in {"-", ".", "/", ":"}}

\* the exact, operator and prefix stages all fail for the term
ReachesSuffixStage(term) ==
    /\ ~MapHas(pricingMap, term)
    /\ OperatorCandidates(term) = {}
    /\ AcceptedPrefixes(term) = {}

\* C13: an attempt of findMatch whose term fails the exact, operator and
\* prefix stages ends the search with the record of a shortest key that
\* starts with the term and continues it with '-', '.', '/' or ':'; when
\* no such key exists the attempt finds nothing, whatever keys continue
\* the term with another character.
C13_SuffixStageShortest ==
    pc = "done"
        => \A a \in 1..Len(attempts) :
              LET term == attempts[a]
                  accepted == AcceptedSuffixes(term)
              IN ReachesSuffixStage(term)
                 => IF accepted # {}
                    THEN /\ a = Len(attempts)
                         /\ \E i \in accepted :
                               /\ \A j \in accepted :
                                     Len(pricingMap[i].key)
                                         <= Len(pricingMap[j].key)
                               /\ result = pricingMap[i].entry
                    ELSE a = Len(attempts) => result = Null

\* a longer accepted key was inserted before a shorter one, and the record
\* of the shorter one was returned
C13_Witness ==
    /\ pc = "done"
    /\ attempts # <<>>
    /\ LET term == attempts[Len(attempts)] IN
       /\ ReachesSuffixStage(term)
       /\ \E i, j \in AcceptedSuffixes(term) :
             /\ i < j
             /\ Len(pricingMap[i].key) > Len(pricingMap[j].key)
             /\ pricingMap[i].entry # pricingMap[j].entry
             /\ result = pricingMap[j].entry

(***************************************************************************)
(* calculateBangForBuck                                                    *)
(*                                                                         *)
(* A fraction is a record [num, den] with den > 0.  The value the function *)
(* returns, (arenaScore - ELO_BASELINE) / log(1 + blendedPrice) *          *)
(* rankMultiplier, is kept as the record of its three parts:               *)
(*   elo             arenaScore - ELO_BASELINE                             *)
(*   blendedPrice    the fraction (inputCostPer1M + outputCostPer1M) / 2   *)
(*   rankMultiplier  the fraction RANK_DECAY_BASE ^ (safeRank - 1)         *)
(***************************************************************************)
ELO_BASELINE == 1000

\* 0.85
RANK_DECAY_BASE == [num |-> 17, den |-> 20]

\* arenaScore and rank are one-element sequences <<n>>, or Absent when the
\* argument is undefined, null or NaN
Absent == <<>>

Number(n) == <<n>>

ValueOf(x) == x[1]

\* !x for a numeric or absent x
Falsy(x) == x = Absent \/ ValueOf(x) = 0

\* Math.max of two integers
MathMax(a, b) == IF a >= b THEN a ELSE b

\* Math.pow of a fraction and an exponent >= 0
RECURSIVE MathPow(_, _)
MathPow(base, exponent) ==
    IF exponent = 0 THEN [num |-> 1, den |-> 1]
    ELSE LET rest == MathPow(base, exponent - 1)
         IN [num |-> base.num * rest.num, den |-> base.den * rest.den]

\* a slip: the rank penalty is switched off (decay base 1.0)
RankMultiplier_NoDecay(rank) == [num |-> 1, den |-> 1]

\* the default rank = 1, safeRank and rankMultiplier of calculateBangForBuck
RankMultiplier(rank) ==
    LET safeRank == MathMax(IF rank = Absent THEN 1 ELSE ValueOf(rank), 1)
    IN MathPow(RANK_DECAY_BASE, safeRank - 1)

\* a slip: < for <= in the baseline test
calculateBangForBuck_BaselineAllowed(arenaScore, inputCostPer1M, outputCostPer1M, rank) ==
    IF Falsy(arenaScore) THEN Null
    ELSE IF ValueOf(arenaScore) < ELO_BASELINE THEN Null
    ELSE LET blendedPrice ==
                 [num |-> inputCostPer1M + outputCostPer1M, den |-> 2]
         IN IF blendedPrice.num <= 0 THEN Null
            ELSE [elo |-> ValueOf(arenaScore) - ELO_BASELINE,
                  blendedPrice |-> blendedPrice,
                  rankMultiplier |-> RankMultiplier(rank)]

\* blendedPrice <= 0 is the test num <= 0 on the fraction num / 2
calculateBangForBuck(arenaScore, inputCostPer1M, outputCostPer1M, rank) ==
    IF Falsy(arenaScore) THEN Null
    ELSE IF ValueOf(arenaScore) <= ELO_BASELINE THEN Null
    ELSE LET blendedPrice ==
                 [num |-> inputCostPer1M + outputCostPer1M, den |-> 2]
         IN IF blendedPrice.num <= 0 THEN Null
            ELSE [elo |-> ValueOf(arenaScore) - ELO_BASELINE,
                  blendedPrice |-> blendedPrice,
                  rankMultiplier |-> RankMultiplier(rank)]

(***************************************************************************)
(* SpecScore: calculateBangForBuck applied to drawn arguments              *)
(***************************************************************************)
\* highest rank drawn
MaxRank == 4

ArenaScores == {Absent} \cup {Number(n) : n \in {0, 999, 1000, 1001, 1300}}

Costs == {-1, 0, 1, 5}

Ranks == {Absent} \cup {Number(n) : n \in -1..MaxRank}

ScoreInputs ==
    [arenaScore : ArenaScores, inputCostPer1M : Costs,
     outputCostPer1M : Costs, rank : Ranks]

InitScore ==
    /\ input \in ScoreInputs
    /\ output = Null
    /\ op = "none"
    /\ provider = "openrouter"
    /\ rawData = <<>>
    /\ pricingMap = <<>>
    /\ pc = "score"
    /\ modelName = <<>>
    /\ normalized = <<>>
    /\ attempts = <<>>
    /\ result = Null
    /\ isLoading = FALSE
    /\ requests = <<>>
    /\ event = Null
    /\ InitUi

CalculateBangForBuck ==
    /\ pc = "score"
    /\ op = "none"
    /\ output' = calculateBangForBuck(input.arenaScore, input.inputCostPer1M,
                                      input.outputCostPer1M, input.rank)
    /\ op' = "calculateBangForBuck"
    /\ UNCHANGED input
    /\ UNCHANGED <<matchVars, serviceVars, uiVars>>

NextScore == CalculateBangForBuck

SpecScore == InitScore /\ [][NextScore]_vars

(***************************************************************************)
(* Claims about calculateBangForBuck (SpecScore)                           *)
(***************************************************************************)
\* C14: calculateBangForBuck returns none exactly when the capability score
\* is absent or at most 1000, or the blended price (inputCost+outputCost)/2
\* is at most 0; for every other numeric input it returns a number.  So
\* score(1000, 5, 5, 1) and score(1300, 0, 0, 1) are none.
C14_NoneExactlyWhenNotCalculable ==
    op = "calculateBangForBuck"
        => (output = Null
              <=> \/ input.arenaScore = Absent
                  \/ ValueOf(input.arenaScore) <= 1000
                  \/ input.inputCostPer1M + input.outputCostPer1M <= 0)

\* score(1300, 0, 0, 1) was computed and is none
C14_Witness ==
    /\ op = "calculateBangForBuck"
    /\ input = [arenaScore |-> Number(1300), inputCostPer1M |-> 0,
                outputCostPer1M |-> 0, rank |-> Number(1)]
    /\ output = Null

\* a < b for two returned values with one capability and one price: the
\* common factor elo / log(1 + blendedPrice) is positive
ScoreLess(a, b) ==
    /\ a.elo = b.elo /\ a.elo > 0
    /\ a.blendedPrice = b.blendedPrice /\ a.blendedPrice.num > 0
    /\ a.rankMultiplier.num * b.rankMultiplier.den
           < b.rankMultiplier.num * a.rankMultiplier.den

MaxSwitches == 2

\* message.value of PROVIDER_CHANGED: a provider of CONFIG.PROVIDERS or not
UnknownProvider == "unknown"

SwitchTargets == Providers \cup {UnknownProvider}

\* the entries each endpoint serves
ServedEntries(prov) ==
    CASE prov = "helicone" -> <<Entry(NameGpt4, TRUE, 1, 2, "")>>
      [] prov = "litellm" -> <<Entry(NameGpt45, TRUE, 1, 2, "")>>
      [] prov = "openrouter" -> <<Entry(NameGpt, TRUE, 1, 2, "")>>

\* the display names of the served models
ServedNames ==
    UNION {{ServedEntries(prov)[i].model : i \in 1..Len(ServedEntries(prov))} :
              prov \in Providers}

\* the payloads an endpoint can answer with, regular and not
ServedPayloads(prov) ==
    CASE prov = "helicone" ->
            {[shape |-> "array", entries |-> ServedEntries(prov)],
             [shape |-> "dataArray", entries |-> ServedEntries(prov)],
             [shape |-> "object", entries |-> <<>>],
             [shape |-> "dataObject", entries |-> <<>>],
             [shape |-> "null", entries |-> <<>>]}
      [] prov = "litellm" ->
            {[shape |-> "object", entries |-> ServedEntries(prov)],
             [shape |-> "null", entries |-> <<>>]}
      [] prov = "openrouter" ->
            {[shape |-> "dataArray", entries |-> ServedEntries(prov)],
             [shape |-> "array", entries |-> ServedEntries(prov)],
             [shape |-> "object", entries |-> <<>>],
             [shape |-> "dataObject", entries |-> <<>>],
             [shape |-> "null", entries |-> <<>>]}

Responses(prov) ==
    {[kind |-> "networkError", data |-> NoData],
     [kind |-> "httpError", data |-> NoData]}
        \cup {[kind |-> "ok", data |-> d] : d \in ServedPayloads(prov)}

Request(kind, prov, status, overlapped) ==
    [kind |-> kind, provider |-> prov, status |-> status,
     built |-> <<>>, error |-> "none", overlapped |-> overlapped]

Event(handler, request, response, reads, rebuilding) ==
    [handler |-> handler, request |-> request, response |-> response,
     reads |-> reads, rebuilding |-> rebuilding]

\* the calls whose fetch has not settled
FetchesInFlight ==
    {i \in 1..Len(requests) : requests[i].status = InFlight.kind}

SwitchCount ==
    Cardinality({i \in 1..Len(requests) : requests[i].kind = "switchProvider"})

InitSwitch ==
    /\ provider = "null"
    /\ pricingMap = <<>>
    /\ isLoading = FALSE
    /\ requests = <<>>
    /\ event = Null
    /\ InitUi
    /\ pc = "constructed"
    /\ rawData = <<>>
    /\ modelName = <<>>
    /\ normalized = <<>>
    /\ attempts = <<>>
    /\ result = Null
    /\ input = <<>>
    /\ output = <<>>
    /\ op = "none"

\* init(): reprocessAll(true) shows loading cells, initialize(currentProvider)
\* starts the fetch
StartInit(prov) ==
    /\ pc = "constructed"
    /\ provider' = prov
    /\ isLoading' = TRUE
    /\ requests' = <<Request("initialize", prov, InFlight.kind, FALSE)>>
    /\ event' = Event("init", 1, InFlight, FALSE, FALSE)
    /\ pc' = "initializing"
    /\ UNCHANGED <<rawData, pricingMap, modelName, normalized, attempts,
                   result>>
    /\ UNCHANGED <<textVars, uiVars>>

\* the fetch of call i settles: the rest of _fetchPricing and initialize,
\* then the caller's updateAllCells(); after the first call init() starts
\* the table observer and adds the message listener
FetchSettles(i, response) ==
    /\ i \in FetchesInFlight
    /\ LET fetched == _fetchPricing(pricingMap, requests[i].provider, response)
       IN /\ pricingMap' = fetched.map
          /\ requests' =
                 [requests EXCEPT
                     ![i].status = IF response.kind = "ok" THEN "ok"
                                   ELSE "failed",
                     ![i].built = IF response.kind = "ok" THEN fetched.map
                                  ELSE <<>>,
                     ![i].error = fetched.error]
          /\ event' = Event("response", i, response,
                            fetched.error = "none", FetchesInFlight # {i})
    /\ isLoading' = FALSE
    /\ pc' = "listening"
    /\ UNCHANGED <<provider, rawData, modelName, normalized, attempts,
                   result>>
    /\ UNCHANGED <<textVars, uiVars>>

\* the PROVIDER_CHANGED handler up to its await: setAllCellsLoading() and
\* the synchronous part of switchProvider; for a provider CONFIG.PROVIDERS
\* lacks, _fetchPricing returns at once and the handler runs to its end
ProviderChanged(prov) ==
    /\ pc = "listening"
    /\ SwitchCount < MaxSwitches
    /\ pricingMap' = clear(pricingMap)
    /\ provider' = prov
    /\ LET others == FetchesInFlight
           marked == [i \in 1..Len(requests) |->
                         IF i \in others
                         THEN [requests[i] EXCEPT !.overlapped = TRUE]
                         ELSE requests[i]]
           fetches == prov \in Providers
       IN /\ requests' =
                 Append(marked,
                        Request("switchProvider", prov,
                                IF fetches THEN InFlight.kind
                                ELSE NoFetch.kind,
                                others # {}))
          /\ isLoading' = fetches
          /\ event' = Event("PROVIDER_CHANGED", Len(requests) + 1,
                            IF fetches THEN InFlight ELSE NoFetch,
                            ~fetches, others # {})
    /\ UNCHANGED <<rawData, pc, modelName, normalized, attempts, result>>
    /\ UNCHANGED <<textVars, uiVars>>

\* the TOKEN_UNIT_CHANGED handler: updateAllCells() calls getPricing for
\* every injected cell
TokenUnitChanged ==
    /\ pc = "listening"
    /\ event' = Event("TOKEN_UNIT_CHANGED", 0, NoFetch, TRUE,
                      FetchesInFlight # {})
    /\ UNCHANGED <<matchVars, isLoading, requests>>
    /\ UNCHANGED <<textVars, uiVars>>

\* the debounced MutationObserver callback: _processAllTables() injects the
\* cells of new rows and calls getPricing for them
TableMutation ==
    /\ pc = "listening"
    /\ event' = Event("mutation", 0, NoFetch, TRUE, FetchesInFlight # {})
    /\ UNCHANGED <<matchVars, isLoading, requests>>
    /\ UNCHANGED <<textVars, uiVars>>

NextSwitch ==
    \/ \E prov \in Providers : StartInit(prov)
    \/ \E i \in FetchesInFlight :
          \E response \in Responses(requests[i].provider) :
              FetchSettles(i, response)
    \/ \E prov \in SwitchTargets : ProviderChanged(prov)
    \/ TokenUnitChanged
    \/ TableMutation

SpecSwitch == InitSwitch /\ [][NextSwitch]_vars

(***************************************************************************)
(* Claims about provider switches (SpecSwitch)                             *)
(***************************************************************************)
AllSettled == FetchesInFlight = {}

LastRequest == requests[Len(requests)]

\* C16: once every fetch has settled after switches that overlapped (a later
\* switchProvider started while an earlier fetch was in flight), the pricing
\* map holds exactly the records built from the response to the most
\* recently requested provider, and currentProvider names that provider.
\* Stated for a most recent request whose fetch succeeded.
C16_LatestSwitchWins ==
    /\ pc = "listening"
    /\ AllSettled
    /\ \E i \in 1..Len(requests) : requests[i].overlapped
    /\ LastRequest.status = "ok"
    => /\ provider = LastRequest.provider
       /\ pricingMap = LastRequest.built

\* C17: neither the table mutation observer nor the TOKEN_UNIT_CHANGED
\* handler calls getPricing while the fetch of a switchProvider is in
\* flight, so no reader sees the cleared map.
C17_NoReaderDuringRebuild ==
    /\ event # Null
    /\ event.handler \in {"TOKEN_UNIT_CHANGED", "mutation"}
    /\ event.reads
    => ~event.rebuilding

\* the last call is a switchProvider that overlapped no other call and
\* whose fetch failed or was never started
FailedSwitchAlone ==
    /\ pc = "listening"
    /\ AllSettled
    /\ LastRequest.kind = "switchProvider"
    /\ ~LastRequest.overlapped
    /\ LastRequest.status \in {"failed", "noFetch"}

\* C18: after a switchProvider whose fetch fails (network error, non-OK
\* status, unknown provider) with no other fetch in flight, the pricing map
\* is empty, getPricing returns none for every name, and no error escaped.
C18_FailedSwitchLeavesEmptyCatalog ==
    FailedSwitchAlone
        => /\ pricingMap = <<>>
           /\ LastRequest.error = "none"
           /\ \A name \in ServedNames : getPricing(pricingMap, name) = Null

\* the failed switch followed a call that had built a catalog with records
C18_Witness ==
    /\ FailedSwitchAlone
    /\ requests[Len(requests) - 1].built # <<>>
    /\ requests[Len(requests) - 1].status = "ok"
    /\ ~requests[Len(requests) - 1].overlapped
    /\ pricingMap = <<>>

\* the payload's top-level shape is wrong for the provider, in the claim's
\* words: Helicone, neither an array nor {data: array}; OpenRouter, a data
\* field that is missing or no list
WrongShape(prov, response) ==
    /\ response.kind = "ok"
    /\ \/ /\ prov = "helicone"
          /\ response.data.shape \notin {"array", "dataArray"}
       \/ /\ prov = "openrouter"
          /\ response.data.shape # "dataArray"

\* C20: when the payload of a settled fetch has a wrong top-level shape for
\* its provider, the rebuild ends with an empty pricing map and no error
\* escapes initialize / switchProvider.
C20_WrongShapeGivesEmptyCatalog ==
    /\ event # Null
    /\ event.handler = "response"
    /\ WrongShape(requests[event.request].provider, event.response)
    => /\ pricingMap = <<>>
       /\ requests[event.request].error = "none"

\* an OpenRouter payload whose data field is no list settled after a call
\* that had built a catalog with records
C20_Witness ==
    /\ event # Null
    /\ event.handler = "response"
    /\ event.request > 1
    /\ WrongShape(requests[event.request].provider, event.response)
    /\ requests[event.request].provider = "openrouter"
    /\ event.response.data.shape = "dataObject"
    /\ requests[event.request - 1].built # <<>>
    /\ pricingMap = <<>>

(***************************************************************************)
(* Claims about malformed payload entries (Spec)                           *)
(***************************************************************************)
\* the entry lacks its name/id field or its price data
Malformed(prov, entry) ==
    \/ entry.model = Undefined
    \/ CASE prov = "litellm" -> entry.input = 0 /\ entry.output = 0
         [] OTHER -> ~entry.pricing

\* C19: for every adapter, an entry of the payload that lacks its name/id
\* or its price data contributes no key to the built map, and every other
\* entry of the list (the LiteLLM key sample_spec aside) has its keys in
\* the map, whether it stands before or after the malformed one.
C19_MalformedEntrySkipped ==
    pc = "ready"
        => \A j \in 1..Len(rawData) :
              IF Malformed(provider, rawData[j])
              THEN \A i \in 1..Len(pricingMap) :
                      pricingMap[i].entry # PricingOf(provider, rawData[j])
              ELSE rawData[j].model # LitSampleSpec
                       => KeysOfEntry(rawData[j]) \subseteq MapKeys(pricingMap)

(***************************************************************************)
(* ContextService                                                          *)
(*                                                                         *)
(* An entry of the models payload has, besides the fields of a pricing     *)
(* entry, architecture: whether model.architecture names input or output   *)
(* modalities, and input_modalities: the ones it names.  A context record  *)
(* keeps context_length 0 where the source keeps null (both are falsy).    *)
(***************************************************************************)
\* a slip: the models are fetched from the selected pricing provider's url
ContextSource_SelectedProvider(currentProvider) == currentProvider

\* the provider whose url _fetchContextData fetches
ContextSource(currentProvider) == "openrouter"

Model(id, context_length, architecture, input_modalities) ==
    [model |-> id, pricing |-> TRUE, input |-> 1, output |-> 2,
     operator |-> "", context_length |-> context_length,
     architecture |-> architecture, input_modalities |-> input_modalities]

\* the contextData object _buildContextMap makes of a model
ContextData(model) ==
    [context_length |-> model.context_length,
     input_modalities |-> IF model.architecture THEN model.input_modalities
                          ELSE {"text"},
     hasExplicitModalities |-> model.architecture,
     sourceModelName |-> model.model]

\* the two guarded set() calls that end the loop body of _buildContextMap
InsertContext(map, key, contextData) ==
    LET withKey == IF ~MapHas(map, key) THEN MapSet(map, key, contextData)
                   ELSE map
        shortKey == ShortKey(key)
    IN IF shortKey # <<>> /\ shortKey # key /\ ~MapHas(withKey, shortKey)
       THEN MapSet(withKey, shortKey, contextData)
       ELSE withKey

\* the loop of _buildContextMap, from model i on
RECURSIVE ContextFrom(_, _, _)
ContextFrom(map, models, i) ==
    IF i > Len(models) THEN map
    ELSE IF models[i].model = Undefined \/ models[i].model = <<>>
         THEN ContextFrom(map, models, i + 1)
         ELSE ContextFrom(InsertContext(map,
                                        normalizeModelName(models[i].model),
                                        ContextData(models[i])),
                          models, i + 1)

\* _buildContextMap: the map it leaves, and whether it threw (data.data on
\* null, for-of over a data field that is no list); it inserts into the
\* map it finds and never clears it
_buildContextMap(map, data) ==
    IF data.shape \in {"null", "dataObject"}
    THEN [map |-> map, threw |-> TRUE]
    ELSE IF data.shape = "dataArray"
         THEN [map |-> ContextFrom(map, data.entries, 1), threw |-> FALSE]
         ELSE [map |-> map, threw |-> FALSE]

\* _fetchContextData: the map it leaves; every throw is caught
_fetchContextData(map, response) ==
    IF response.kind # "ok" THEN map
    ELSE _buildContextMap(map, response.data).map

\* ContextService.getContext
getContext(map, name) == findMatch(map, name, FALSE)

(***************************************************************************)
(* ColumnInjector: the injected cells                                      *)
(*                                                                         *)
(* rows[i] is a row of the leaderboard table:                              *)
(*   modelName, arenaScore, rank  what _injectCell and _injectBfbCell read *)
(*                                from the row's native cells              *)
(*   isConnected  the row, and so its cells, are in the document           *)
(*   marked       the row carries CONFIG.ROW_MARKER: its four cells were   *)
(*                injected and pushed on the four injected...Cells lists   *)
(*   cells        per cell type: loading (the --loading class), text (the  *)
(*                kind of content shown) and data (what it was made from)  *)
(***************************************************************************)
\* the keys of LoadingManager.setLoading's classMap
CellTypes == {"price", "bfb", "ctx", "mod"}

NoCell == [loading |-> FALSE, text |-> "none", data |-> Null]

\* what _injectCell and its peers leave when showLoading is set, and what
\* LoadingManager.setLoading(cells, true) leaves
LoadingCell == [loading |-> TRUE, text |-> "Loading", data |-> Null]

Shown(text, data) == [loading |-> FALSE, text |-> text, data |-> data]

\* _updateCellContent after its getPricing(modelName)
PriceContent(pricing) ==
    IF pricing # Null THEN Shown("value", pricing) ELSE Shown("N/A", Null)

\* the arena score _updateBfbCellContent accepts
Scored(row) == ~Falsy(row.arenaScore) /\ ValueOf(row.arenaScore) > 1000

\* valueScore !== null ? formatted value : N/A
BfbValue(valueScore) ==
    IF valueScore # Null THEN Shown("value", valueScore)
    ELSE Shown("N/A", Null)

\* _updateBfbCellContent after its getPricing(modelName)
BfbContent(row, pricing) ==
    IF pricing # Null /\ Scored(row)
    THEN BfbValue(calculateBangForBuck(row.arenaScore,
                                       pricing.input_cost_per_1m,
                                       pricing.output_cost_per_1m,
                                       row.rank))
    ELSE IF ~Scored(row) THEN Shown("dash", Null)
    ELSE Shown("N/A", Null)

\* _updateContextWindowCellContent after its getContext(modelName)
CtxContent(contextData) ==
    IF contextData # Null /\ contextData.context_length # 0
    THEN Shown("value", [context_length |-> contextData.context_length])
    ELSE Shown("N/A", Null)

\* _updateModalitiesCellContent after its getContext(modelName)
ModContent(contextData) ==
    IF contextData # Null /\ contextData.hasExplicitModalities
    THEN Shown("value",
               [input_modalities |-> contextData.input_modalities])
    ELSE Shown("N/A", Null)

\* the content of a row's cell of one type, from what getPricing and
\* getContext return for the row's model name
Content(cellType, row, pricing, contextData) ==
    CASE cellType = "price" -> PriceContent(pricing)
      [] cellType = "bfb" -> BfbContent(row, pricing)
      [] cellType = "ctx" -> CtxContent(contextData)
      [] cellType = "mod" -> ModContent(contextData)

\* the four cells of a row with their content computed anew
RowContent(row, pMap, cMap) ==
    [t \in CellTypes |->
        Content(t, row, getPricing(pMap, row.modelName),
                getContext(cMap, row.modelName))]

\* cells that keep the --loading class the row's cells had
KeepLoadingClass(row, cells) ==
    [t \in CellTypes |-> [cells[t] EXCEPT !.loading = row.cells[t].loading]]

\* a slip: the content is renewed but the --loading class stays
updateAllCells_KeepsLoadingClass(table, pMap, cMap) ==
    [i \in 1..Len(table) |->
        IF table[i].marked /\ table[i].isConnected
        THEN [table[i] EXCEPT
                 !.cells = KeepLoadingClass(table[i],
                                            RowContent(table[i], pMap, cMap))]
        ELSE table[i]]

\* updateAllCells: every connected cell of the four lists loses its
\* --loading class and has its content computed anew
updateAllCells(table, pMap, cMap) ==
    [i \in 1..Len(table) |->
        IF table[i].marked /\ table[i].isConnected
        THEN [table[i] EXCEPT !.cells = RowContent(table[i], pMap, cMap)]
        ELSE table[i]]

\* setAllCellsLoading
setAllCellsLoading(table) ==
    [i \in 1..Len(table) |->
        IF table[i].marked /\ table[i].isConnected
        THEN [table[i] EXCEPT !.cells = [t \in CellTypes |-> LoadingCell]]
        ELSE table[i]]

\* _processAllTables: injectIntoTable marks every row of the document that
\* lacks the row marker and injects its four cells
_processAllTables(table, showLoading, pMap, cMap) ==
    [i \in 1..Len(table) |->
        IF ~table[i].marked /\ table[i].isConnected
        THEN [table[i] EXCEPT
                 !.marked = TRUE,
                 !.cells = IF showLoading
                           THEN [t \in CellTypes |-> LoadingCell]
                           ELSE RowContent(table[i], pMap, cMap)]
        ELSE table[i]]

(***************************************************************************)
(* SpecPage: init() shows loading cells and starts the pricing and the     *)
(* context fetch; when both have settled it fills the cells, starts the    *)
(* table observer and adds the message listener.  The page adds and        *)
(* removes rows at any time.  Of a call in requests this specification     *)
(* keeps kind, provider and status, and the status of a fetch that has     *)
(* settled is "settled" whatever its outcome.  The cells of a row that     *)
(* left the document are not followed any further.                         *)
(***************************************************************************)
\* most rows the page ever adds
MaxRows == 1

\* the rows the leaderboard shows, in the order the page adds them
LeaderboardRow(i) ==
    [modelName |-> CASE i % 3 = 1 -> NameGpt4
                     [] i % 3 = 2 -> NameOpenAIGpt45
                     [] OTHER -> NameGpt4o,
     arenaScore |-> IF i % 2 = 1 THEN Number(1300) ELSE Number(999),
     rank |-> Number(i),
     isConnected |-> TRUE,
     marked |-> FALSE,
     cells |-> [t \in CellTypes |-> NoCell]]

\* the models the OpenRouter endpoint serves to the context fetch
ServedModels ==
    <<Model(NameOpenAIGpt45, 128000, TRUE, {"text", "image"}),
      Model(NameGpt4, 0, FALSE, {})>>

\* what the url of a provider answers a fetch with when it answers
ServedPayload(source) ==
    CASE source = "helicone" ->
            [shape |-> "array", entries |-> ServedEntries(source)]
      [] source = "litellm" ->
            [shape |-> "object", entries |-> ServedEntries(source)]
      [] source = "openrouter" ->
            [shape |-> "dataArray", entries |-> ServedModels]
      [] OTHER -> NoData

\* how a fetch settles: with the payload, or rejected
Settlements(source) ==
    {[kind |-> "ok", data |-> ServedPayload(source)],
     [kind |-> "networkError", data |-> NoData]}

\* the stored provider preference init() starts from
InitialProviders == {"litellm", "openrouter"}

\* message.value of the PROVIDER_CHANGED messages
PageSwitchTargets == {"helicone", UnknownProvider}

\* the services as their constructors leave them
InitConstructed ==
    /\ provider = "null"
    /\ pricingMap = <<>>
    /\ isLoading = FALSE
    /\ requests = <<>>
    /\ event = Null
    /\ pc = "constructed"
    /\ rawData = <<>>
    /\ modelName = <<>>
    /\ normalized = <<>>
    /\ attempts = <<>>
    /\ result = Null
    /\ input = <<>>
    /\ output = <<>>
    /\ op = "none"

InitPage == InitConstructed /\ InitUi

\* init() after Promise.all: updateAllCells(), then tableObserver.start()
\* with its _processAllTables()
AfterBothFetches(table, pMap, cMap) ==
    _processAllTables(updateAllCells(table, pMap, cMap), FALSE, pMap, cMap)

\* init() up to Promise.all: reprocessAll(true), then initialize() of both
\* services up to their fetches
InitOnPage(prov) ==
    /\ pc = "constructed"
    /\ rows' = _processAllTables(rows, TRUE, pricingMap, contextMap)
    /\ provider' = prov
    /\ isLoading' = TRUE
    /\ contextIsLoading' = TRUE
    /\ requests' = <<Request("initialize", prov, InFlight.kind, FALSE)>>
    /\ pc' = "initializing"
    /\ UNCHANGED <<rawData, pricingMap, modelName, normalized, attempts,
                   result, event, contextMap>>
    /\ UNCHANGED <<textVars, notifyVars, sortVars, prefVars>>

\* the pricing fetch of call i settles: the rest of _fetchPricing and of
\* initialize / switchProvider, then the awaiting caller: init() when the
\* context fetch has settled too, or the PROVIDER_CHANGED handler with its
\* updateAllCells()
PricingSettlesOnPage(i, response) ==
    /\ i \in FetchesInFlight
    /\ pricingMap' = _fetchPricing(pricingMap, requests[i].provider,
                                   response).map
    /\ IF requests[i].kind = "initialize"
       THEN IF contextIsLoading
            THEN rows' = rows /\ pc' = pc
            ELSE /\ rows' = AfterBothFetches(rows, pricingMap', contextMap)
                 /\ pc' = "listening"
       ELSE /\ rows' = updateAllCells(rows, pricingMap', contextMap)
            /\ pc' = pc
    /\ requests' = [requests EXCEPT ![i].status = "settled"]
    /\ isLoading' = FALSE
    /\ UNCHANGED <<provider, rawData, modelName, normalized, attempts,
                   result, event, contextMap, contextIsLoading>>
    /\ UNCHANGED <<textVars, notifyVars, sortVars, prefVars>>

\* the context fetch settles: the rest of _fetchContextData and of
\* ContextService.initialize, then init() when the pricing fetch has
\* settled too
ContextSettlesOnPage(response) ==
    /\ contextIsLoading
    /\ contextMap' = _fetchContextData(contextMap, response)
    /\ IF FetchesInFlight # {}
       THEN rows' = rows /\ pc' = pc
       ELSE /\ rows' = AfterBothFetches(rows, pricingMap, contextMap')
            /\ pc' = "listening"
    /\ contextIsLoading' = FALSE
    /\ event' = Event("context", 0, response, FALSE, FALSE)
    /\ UNCHANGED <<provider, rawData, pricingMap, modelName, normalized,
                   attempts, result, isLoading, requests>>
    /\ UNCHANGED <<textVars, notifyVars, sortVars, prefVars>>

\* the PROVIDER_CHANGED handler up to its await: setAllCellsLoading() and
\* the synchronous part of switchProvider; for a provider CONFIG.PROVIDERS
\* lacks, _fetchPricing returns at once and updateAllCells() follows
ProviderChangedOnPage(prov) ==
    /\ pc = "listening"
    /\ SwitchCount < MaxSwitches
    /\ pricingMap' = clear(pricingMap)
    /\ provider' = prov
    /\ LET fetches == prov \in Providers
       IN /\ requests' =
                 Append(requests,
                        Request("switchProvider", prov,
                                IF fetches THEN InFlight.kind
                                ELSE NoFetch.kind,
                                FALSE))
          /\ isLoading' = fetches
          /\ rows' = IF fetches THEN setAllCellsLoading(rows)
                     ELSE updateAllCells(setAllCellsLoading(rows),
                                         clear(pricingMap), contextMap)
    /\ UNCHANGED <<rawData, pc, modelName, normalized, attempts, result,
                   event, contextMap, contextIsLoading>>
    /\ UNCHANGED <<textVars, notifyVars, sortVars, prefVars>>

\* the TOKEN_UNIT_CHANGED handler: updateAllCells()
TokenUnitChangedOnPage ==
    /\ pc = "listening"
    /\ rows' = updateAllCells(rows, pricingMap, contextMap)
    /\ UNCHANGED <<matchVars, serviceVars, contextMap, contextIsLoading>>
    /\ UNCHANGED <<textVars, notifyVars, sortVars, prefVars>>

\* the debounced MutationObserver callback: _processAllTables()
TableMutationOnPage ==
    /\ pc = "listening"
    /\ \E i \in 1..Len(rows) : ~rows[i].marked /\ rows[i].isConnected
    /\ rows' = _processAllTables(rows, FALSE, pricingMap, contextMap)
    /\ UNCHANGED <<matchVars, serviceVars, contextMap, contextIsLoading>>
    /\ UNCHANGED <<textVars, notifyVars, sortVars, prefVars>>

\* the page renders one more row
PageAddsRow ==
    /\ Len(rows) < MaxRows
    /\ rows' = Append(rows, LeaderboardRow(Len(rows) + 1))
    /\ UNCHANGED <<matchVars, serviceVars, contextMap, contextIsLoading>>
    /\ UNCHANGED <<textVars, notifyVars, sortVars, prefVars>>

\* the page takes a row out of the document
PageRemovesRow(i) ==
    /\ rows[i].isConnected
    /\ rows' = [rows EXCEPT ![i].isConnected = FALSE,
                             ![i].cells = [t \in CellTypes |-> NoCell]]
    /\ UNCHANGED <<matchVars, serviceVars, contextMap, contextIsLoading>>
    /\ UNCHANGED <<textVars, notifyVars, sortVars, prefVars>>

NextPage ==
    \/ \E prov \in InitialProviders : InitOnPage(prov)
    \/ \E i \in FetchesInFlight :
          \E response \in Settlements(requests[i].provider) :
              PricingSettlesOnPage(i, response)
    \/ \E response \in Settlements(ContextSource(provider)) :
          ContextSettlesOnPage(response)
    \/ \E prov \in PageSwitchTargets : ProviderChangedOnPage(prov)
    \/ TokenUnitChangedOnPage
    \/ TableMutationOnPage
    \/ PageAddsRow
    \/ \E i \in 1..Len(rows) : PageRemovesRow(i)

SpecPage == InitPage /\ [][NextPage]_vars

(***************************************************************************)
(* Claims about the page (SpecPage)                                        *)
(***************************************************************************)
\* the context fetch was answered with the payload
ContextLoaded ==
    /\ event # Null
    /\ event.handler = "context"
    /\ event.response.kind = "ok"

\* the context catalog the OpenRouter models payload builds
OpenRouterContext == _buildContextMap(<<>>, ServedPayload("openrouter")).map

DisplayNames == {LeaderboardRow(i).modelName : i \in 1..3}

\* C21: the context catalog does not depend on the selected pricing
\* provider: once the listener runs, no step changes the context catalog's
\* keys and records; across a PROVIDER_CHANGED message and across the
\* settling of a switch's fetch getContext returns the same result for
\* every display name; and a context catalog that was loaded is the one
\* built from the OpenRouter payload, whatever provider was or is selected.
C21_ContextIndependentOfProvider ==
    [][/\ pc = "listening" => contextMap' = contextMap
       /\ (pc = "listening" /\ requests' # requests)
            => \A name \in DisplayNames :
                  getContext(contextMap', name) = getContext(contextMap, name)
       /\ ContextLoaded' => contextMap' = OpenRouterContext]_vars

\* a switch to Helicone has settled with records, after an init under
\* another provider, and the context catalog is still the loaded one
C21_Witness ==
    /\ pc = "listening"
    /\ SwitchCount >= 1
    /\ FetchesInFlight = {}
    /\ provider = "helicone"
    /\ requests[1].provider = "litellm"
    /\ pricingMap # <<>>
    /\ ContextLoaded
    /\ contextMap # <<>>
    /\ getContext(contextMap, NameGpt4) # Null

\* C30: once init() has run to its listener and no pricing fetch is in
\* flight (each one settled with a payload or with an error), every
\* injected cell that is connected to the page is out of the loading state
\* and shows the value, dash or N/A computed from the current pricing and
\* context catalogs.
C30_NoCellLeftLoading ==
    (pc = "listening" /\ FetchesInFlight = {})
        => \A i \in 1..Len(rows) :
              (rows[i].marked /\ rows[i].isConnected)
                  => \A t \in CellTypes :
                        /\ ~rows[i].cells[t].loading
                        /\ rows[i].cells[t].text # "Loading"
                        /\ rows[i].cells[t] =
                               RowContent(rows[i], pricingMap, contextMap)[t]

\* two overlapping switches have settled and a connected row shows a price
C30_Witness ==
    /\ pc = "listening"
    /\ FetchesInFlight = {}
    /\ SwitchCount >= 2
    /\ requests[Len(requests)].status = "settled"
    /\ requests[Len(requests) - 1].status = "settled"
    /\ \E i \in 1..Len(rows) :
          /\ rows[i].marked /\ rows[i].isConnected
          /\ rows[i].cells["price"].text = "value"
          /\ rows[i].cells["mod"].text = "N/A"

(***************************************************************************)
(* Claims about version boundaries, empty names and full keys (Spec)       *)
(***************************************************************************)
\* every record of the map is an Equals record
EqualsOnly ==
    \A i \in 1..Len(pricingMap) : pricingMap[i].entry.operator = "equals"

\* key k is the query n, which ends in a digit, followed by '.' or '-' and
\* a digit
ContinuedByKey(n, k) ==
    /\ Len(n) > 0
    /\ IsDigit(At(n, Len(n)))
    /\ StartsWith(k, n)
    /\ At(k, Len(n) + 1) \in {".", "-"}
    /\ IsDigit(At(k, Len(n) + 2))

\* the keys under which the map holds the record getPricing returned
KeysOfResult ==
    {pricingMap[i].key :
        i \in {j \in 1..Len(pricingMap) : pricingMap[j].entry = result}}

\* C26: with Equals records only, getPricing never returns a record across
\* a version boundary: not a record whose keys all continue the query with
\* a version number, and not a record whose keys are all continued by the
\* query with a version number.
C26_NoMatchAcrossVersionBoundary ==
    (pc = "done" /\ EqualsOnly /\ result # Null)
        => /\ \E k \in KeysOfResult : ~ContinuedByKey(normalized, k)
           /\ \E k \in KeysOfResult : ~ContinuesVersion(normalized, k)

(***************************************************************************)
(* SpecBlank: Spec with the model names that are empty, absent, or become  *)
(* empty when their suffix is stripped, and with one more payload whose    *)
(* model name starts with a blank                                          *)
(***************************************************************************)
NamePreviewOnly == <<"-", "p", "r", "e", "v", "i", "e", "w">>

NameLeadingBlank == <<" ", "g", "p", "t">>

\* modelName of getPricing: undefined, '', '-preview'
BlankNames == {Undefined, <<>>, NamePreviewOnly}

InitBlank ==
    /\ provider \in Providers
    /\ rawData \in Payloads(provider)
                      \cup {<<Entry(NameLeadingBlank, TRUE, 1, 2, "")>>}
    /\ pricingMap = <<>>
    /\ pc = "start"
    /\ modelName = <<>>
    /\ normalized = <<>>
    /\ attempts = <<>>
    /\ result = Null
    /\ input = <<>>
    /\ output = <<>>
    /\ op = "none"
    /\ isLoading = FALSE
    /\ requests = <<>>
    /\ event = Null
    /\ InitUi

NextBlank ==
    \/ Initialize
    \/ \E name \in BlankNames : GetPricing(name)
    \/ TryNormalized
    \/ TryWithoutSuffix
    \/ TryWithoutDates
    \/ TryWithoutThinking
    \/ TryWithoutDatesAndThinking

SpecBlank == InitBlank /\ [][NextBlank]_vars

\* C27: resolving an empty or absent model name returns none, and no record
\* is returned for a search term of length zero: the attempt that returned
\* the record (the last one) had a term that is not empty.
C27_EmptyNameIsNone ==
    pc = "done"
        => /\ Len(normalized) = 0 => result = Null
           /\ result # Null => Len(attempts[Len(attempts)]) > 0

\* entry j of the payload is inserted and is the first inserted entry with
\* its normalized full name
FirstWithFullName(j) ==
    /\ Inserts(provider, rawData[j])
    /\ \A i \in 1..(j - 1) :
          Inserts(provider, rawData[i])
              => normalizeModelName(rawData[i].model)
                     # normalizeModelName(rawData[j].model)

\* an inserted entry before entry j has the full name of entry j as its
\* short key
EarlierShortKey(j) ==
    \E i \in 1..(j - 1) :
        /\ Inserts(provider, rawData[i])
        /\ ShortKey(normalizeModelName(rawData[i].model))
               = normalizeModelName(rawData[j].model)

\* C28 as stated: resolving the exact name of an inserted entry that is the
\* first with its normalized full name returns that entry's own record.
C28_FullKeyNeverDisplaced ==
    pc = "done"
        => \A j \in 1..Len(rawData) :
              (/\ FirstWithFullName(j)
               /\ normalized = normalizeModelName(rawData[j].model))
                  => result = PricingOf(provider, rawData[j])

\* C28 amended: resolving the exact name of an inserted entry that is the
\* first with its normalized full name returns the record of the first
\* inserted entry that produced that name as full or as short key: the
\* entry's own record when no earlier entry has the name as its short key,
\* the record of the earliest such 'vendor/model' entry otherwise.
C28_FirstProducerOfFullKeyWins ==
    pc = "done"
        => \A j \in 1..Len(rawData) :
              (/\ FirstWithFullName(j)
               /\ normalized = normalizeModelName(rawData[j].model))
                  => /\ result =
                            PricingOf(provider,
                                      rawData[Min(Producers(normalized))])
                     /\ ~EarlierShortKey(j)
                            => result = PricingOf(provider, rawData[j])
                     /\ EarlierShortKey(j) => Min(Producers(normalized)) < j

\* the exact name of a later entry was resolved to the different record of
\* an earlier 'vendor/model' entry whose short key it is
C28_Witness ==
    /\ pc = "done"
    /\ \E j \in 1..Len(rawData) :
          /\ FirstWithFullName(j)
          /\ EarlierShortKey(j)
          /\ normalized = normalizeModelName(rawData[j].model)
          /\ result # PricingOf(provider, rawData[j])
          /\ result = PricingOf(provider, rawData[Min(Producers(normalized))])

(***************************************************************************)
(* NotificationManager.  The observer's callback runs after the page's     *)
(* mutations, once for all records that wait.  A flash is the interval of  *)
(* one _flashTitle call with its closure variables; an interval that was   *)
(* cleared leaves the list.  Notification.requestPermission() is answered  *)
(* within the step that asks.                                              *)
(***************************************************************************)
\* flashCount >= 6
FlashLimit == 6

\* _checkForCompletion: whether it calls _sendNotification, and the
\* lastButtonState it leaves
_checkForCompletion(enabled, visible, last) ==
    IF ~enabled THEN [notify |-> FALSE, last |-> last]
    ELSE [notify |-> visible /\ ~last, last |-> visible]

\* Notification.permission when _sendNotification has asked for it
PermissionAfter(answer) ==
    IF permission = "default" THEN answer ELSE permission

\* _flashTitle: const originalTitle = document.title, and the interval
_flashTitle(running, documentTitle) ==
    Append(running, [originalTitle |-> documentTitle, isFlashing |-> TRUE,
                     flashCount |-> 0])

\* _sendNotification: returns unless the permission is (or becomes)
\* granted; shows a Notification when the tab is hidden; flashes the title
_sendNotification(answer) ==
    /\ triggered' = triggered + 1
    /\ permission' = PermissionAfter(answer)
    /\ flashes' = IF PermissionAfter(answer) = "granted"
                  THEN _flashTitle(flashes, title)
                  ELSE flashes

\* _checkForCompletion as a step, with the value the global
\* battleNotificationEnabled has when it runs
CheckForCompletion(enabled, answer) ==
    LET check == _checkForCompletion(enabled, votingButtonsVisible,
                                     lastButtonState)
    IN /\ lastButtonState' = check.last
       /\ IF check.notify
          THEN /\ _sendNotification(answer)
               /\ appearance' = "announced"
          ELSE UNCHANGED <<triggered, permission, flashes, appearance>>

\* start(): returns if the observer exists, else _startObserving() with its
\* immediate _checkForCompletion()
start(enabled, answer) ==
    IF observer
    THEN UNCHANGED <<observer, pendingMutations, lastButtonState, triggered,
                     permission, flashes, appearance>>
    ELSE /\ observer' = TRUE
         /\ pendingMutations' = FALSE
         /\ CheckForCompletion(enabled, answer)

\* stop(): disconnect() drops the records that wait
stop ==
    /\ observer' = FALSE
    /\ pendingMutations' = FALSE
    /\ UNCHANGED <<lastButtonState, triggered, permission, flashes,
                   appearance>>

(***************************************************************************)
(* SpecNotify: init() creates and starts the manager, the popup switches   *)
(* alerts on and off, the page shows and hides its voting buttons, the     *)
(* user shows and hides the tab, the title intervals tick                  *)
(***************************************************************************)
\* most _sendNotification calls before the page shows no more buttons
MaxNotifications == 2

\* most title intervals running when the page shows its buttons again
MaxFlashes == 2

Answers == {"granted", "denied"}

\* how the voting buttons now displayed came to be displayed: "unseen" when
\* they appeared while no observer ran or alerts were off, "fresh" when
\* they appeared under a running observer with alerts on, "announced" once
\* _sendNotification was called for them
AppearanceNow == IF votingButtonsVisible THEN "unseen" ELSE "none"

\* init() after loadPreferences: the stored alert preference (true when
\* none is stored), the page as it is, no manager yet
InitNotify ==
    /\ InitConstructed
    /\ InitPageVars
    /\ battleNotificationEnabled \in BOOLEAN
    /\ observer = FALSE
    /\ lastButtonState = FALSE
    /\ votingButtonsVisible \in BOOLEAN
    /\ pendingMutations = FALSE
    /\ appearance = AppearanceNow
    /\ triggered = 0
    /\ permission \in {"default", "granted"}
    /\ visibilityState \in {"visible", "hidden"}
    /\ title = PageTitle
    /\ flashes = <<>>
    /\ manager = "none"
    /\ InitSortVars
    /\ InitPrefVars

\* init(): notificationManager = new NotificationManager(), started if
\* alerts are enabled
StartManager(answer) ==
    /\ manager = "none"
    /\ InitSortVars
    /\ InitPrefVars
    /\ manager' = "started"
    /\ IF battleNotificationEnabled
       THEN start(battleNotificationEnabled, answer)
       ELSE UNCHANGED <<observer, pendingMutations, lastButtonState,
                        triggered, permission, flashes, appearance>>
    /\ UNCHANGED <<battleNotificationEnabled, votingButtonsVisible,
                   visibilityState, title>>
    /\ UNCHANGED <<matchVars, textVars, serviceVars, pageVars, sortVars,
                   prefVars>>

\* the BATTLE_NOTIFICATION_CHANGED handler
BattleNotificationChanged(value, answer) ==
    /\ manager = "started"
    /\ battleNotificationEnabled' = value
    /\ IF value THEN start(value, answer) ELSE stop
    /\ UNCHANGED <<manager, votingButtonsVisible, visibilityState, title>>
    /\ UNCHANGED <<matchVars, textVars, serviceVars, pageVars, sortVars,
                   prefVars>>

\* the page displays its voting buttons
PageShowsButtons ==
    /\ ~votingButtonsVisible
    /\ triggered < MaxNotifications
    /\ Len(flashes) < MaxFlashes
    /\ votingButtonsVisible' = TRUE
    /\ pendingMutations' = observer
    /\ appearance' = IF observer /\ battleNotificationEnabled
                     THEN "fresh" ELSE "unseen"
    /\ UNCHANGED <<battleNotificationEnabled, observer, lastButtonState,
                   triggered, permission, visibilityState, title, flashes,
                   manager>>
    /\ UNCHANGED <<matchVars, textVars, serviceVars, pageVars, sortVars,
                   prefVars>>

\* the page removes its voting buttons
PageHidesButtons ==
    /\ votingButtonsVisible
    /\ votingButtonsVisible' = FALSE
    /\ pendingMutations' = observer
    /\ appearance' = "none"
    /\ UNCHANGED <<battleNotificationEnabled, observer, lastButtonState,
                   triggered, permission, visibilityState, title, flashes,
                   manager>>
    /\ UNCHANGED <<matchVars, textVars, serviceVars, pageVars, sortVars,
                   prefVars>>

\* the MutationObserver's callback
ObserverCallback(answer) ==
    /\ observer
    /\ pendingMutations
    /\ pendingMutations' = FALSE
    /\ CheckForCompletion(battleNotificationEnabled, answer)
    /\ UNCHANGED <<battleNotificationEnabled, observer,
                   votingButtonsVisible, visibilityState, title, manager>>
    /\ UNCHANGED <<matchVars, textVars, serviceVars, pageVars, sortVars,
                   prefVars>>

\* the user leaves the tab or comes back to it
VisibilityChanges ==
    /\ visibilityState' = IF visibilityState = "visible" THEN "hidden"
                          ELSE "visible"
    /\ UNCHANGED <<battleNotificationEnabled, observer, lastButtonState,
                   votingButtonsVisible, pendingMutations, appearance,
                   triggered, permission, title, flashes, manager>>
    /\ UNCHANGED <<matchVars, textVars, serviceVars, pageVars, sortVars,
                   prefVars>>

\* the list without its i-th member
Without(list, i) ==
    [k \in 1..(Len(list) - 1) |-> IF k < i THEN list[k] ELSE list[k + 1]]

\* one tick of the interval of flash i
FlashTick(i) ==
    /\ i \in 1..Len(flashes)
    /\ IF flashes[i].flashCount >= FlashLimit \/ visibilityState = "visible"
       THEN /\ title' = flashes[i].originalTitle
            /\ flashes' = Without(flashes, i)
       ELSE /\ title' = IF flashes[i].isFlashing THEN ReadyTitle
                        ELSE flashes[i].originalTitle
            /\ flashes' = [flashes EXCEPT
                              ![i].isFlashing = ~flashes[i].isFlashing,
                              ![i].flashCount = flashes[i].flashCount + 1]
    /\ UNCHANGED <<battleNotificationEnabled, observer, lastButtonState,
                   votingButtonsVisible, pendingMutations, appearance,
                   triggered, permission, visibilityState, manager>>
    /\ UNCHANGED <<matchVars, textVars, serviceVars, pageVars, sortVars,
                   prefVars>>

NextNotify ==
    \/ \E answer \in Answers : StartManager(answer)
    \/ \E value \in BOOLEAN, answer \in Answers :
          BattleNotificationChanged(value, answer)
    \/ PageShowsButtons
    \/ PageHidesButtons
    \/ \E answer \in Answers : ObserverCallback(answer)
    \/ VisibilityChanges
    \/ \E i \in 1..Len(flashes) : FlashTick(i)

SpecNotify == InitNotify /\ [][NextNotify]_vars

(***************************************************************************)
(* Claims about notifications (SpecNotify)                                 *)
(***************************************************************************)
\* C22: _sendNotification is called only in a step of the observer's
\* callback (the observer existed before the step, so the step is neither
\* start() in init() nor the enabling of alerts), with alerts enabled, for
\* voting buttons that appeared under the running observer and for which no
\* notification was triggered yet.
C22_NotifyOnlyOnAppearance ==
    [][triggered' # triggered
          => /\ observer
             /\ battleNotificationEnabled
             /\ appearance = "fresh"]_vars

\* C29: when no title interval runs, document.title is the title the page
\* had before any flashing began.
C29_TitleRestoredAfterFlashes ==
    flashes = <<>> => title = PageTitle

(***************************************************************************)
(* SortManager.  A row of the table body carries its id and the expando    *)
(* _lmarenaOriginalIndex; the sort values the cell updates stored on the   *)
(* row are a function of its id.  The icons of the header buttons are not  *)
(* followed.                                                               *)
(***************************************************************************)
\* a tr element the page created: no _lmarenaOriginalIndex yet
Row(id) == [id |-> id, originalIndex |-> Absent]

\* row[valueKey]: the value stored on the row for the column, Absent for
\* null
SortValue(id, columnType) ==
    IF columnType = "pricing"
    THEN CASE id % 4 = 1 -> Number(30)
           [] id % 4 = 2 -> Number(10)
           [] id % 4 = 3 -> Absent
           [] OTHER -> Number(10)
    ELSE CASE id % 4 = 1 -> Number(5)
           [] id % 4 = 2 -> Absent
           [] id % 4 = 3 -> Number(7)
           [] OTHER -> Number(5)

\* Array.prototype.sort with a comparator: stable.  compare[j, i] is the
\* comparator's result for the elements at the positions j and i
ArraySort(list, compare) ==
    LET n == Len(list)
        Place(i) ==
            Cardinality({j \in 1..n :
                            \/ compare[j, i] < 0
                            \/ compare[j, i] = 0 /\ j < i}) + 1
    IN [p \in 1..n |-> list[CHOOSE i \in 1..n : Place(i) = p]]

\* the comparator of _sortTable: null values go to the end
CompareValues(a, b, columnType, direction) ==
    LET aVal == SortValue(a.id, columnType)
        bVal == SortValue(b.id, columnType)
    IN IF aVal = Absent /\ bVal = Absent THEN 0
       ELSE IF aVal = Absent THEN 1
       ELSE IF bVal = Absent THEN -1
       ELSE IF direction = "asc" THEN ValueOf(aVal) - ValueOf(bVal)
       ELSE ValueOf(bVal) - ValueOf(aVal)

\* _sortTable: stores the original index of the rows that have none, sorts
\* the rows and appends them in sorted order
_sortTable(body, columnType, direction) ==
    LET indexed ==
            [i \in 1..Len(body) |->
                IF body[i].originalIndex = Absent
                THEN [body[i] EXCEPT !.originalIndex = Number(i - 1)]
                ELSE body[i]]
    IN ArraySort(indexed,
                 [i \in 1..Len(body), j \in 1..Len(body) |->
                     CompareValues(indexed[i], indexed[j],
                                   columnType, direction)])

\* row._lmarenaOriginalIndex ?? 0
IndexOrZero(row) ==
    IF row.originalIndex = Absent THEN 0 ELSE ValueOf(row.originalIndex)

\* _restoreOriginalOrder
_restoreOriginalOrder(body) ==
    ArraySort(body,
              [i \in 1..Len(body), j \in 1..Len(body) |->
                  IndexOrZero(body[i]) - IndexOrZero(body[j])])

\* a slip: desc is followed by asc
NewDirection_NeverUnsorted(columnType, column, direction) ==
    IF column = columnType /\ direction = "asc" THEN "desc" ELSE "asc"

\* toggleSort: let newDirection
NewDirection(columnType, column, direction) ==
    IF column = columnType
    THEN CASE direction = "asc" -> "desc"
           [] direction = "desc" -> "null"
           [] OTHER -> "asc"
    ELSE "asc"

(***************************************************************************)
(* SpecSort: the injector registers header buttons, the user clicks the    *)
(* injected and the native headers, the page adds rows.  streak and        *)
(* orderBefore are history: the number of toggleSort calls made in a row   *)
(* on one column since the unsorted state, and the order of the rows       *)
(* before the first of them.                                               *)
(***************************************************************************)
\* most rows of the table body
MaxSortRows == 3

\* the button elements an injected header can have, one per table render
Buttons == {1, 2}

\* the ids of the rows, in document order
RowOrder(body) == [i \in 1..Len(body) |-> body[i].id]

InitSort ==
    /\ InitConstructed
    /\ InitPageVars
    /\ InitNotifyVars
    /\ InitPrefVars
    /\ currentColumn = "null"
    /\ currentDirection = "null"
    /\ headerButtons = [c \in SortColumns |-> 0]
    /\ tbody = <<Row(1), Row(2)>>
    /\ streak = 0
    /\ orderBefore = <<>>

\* _injectHeader and its peers: sortManager.registerHeader(columnType,
\* button)
RegisterHeader(columnType, button) ==
    /\ IF headerButtons[columnType] # 0
          /\ headerButtons[columnType] # button
          /\ currentColumn = columnType
       THEN currentColumn' = "null" /\ currentDirection' = "null"
       ELSE UNCHANGED <<currentColumn, currentDirection>>
    /\ headerButtons' = [headerButtons EXCEPT ![columnType] = button]
    /\ streak' = 0
    /\ orderBefore' = <<>>
    /\ UNCHANGED tbody
    /\ UNCHANGED <<matchVars, textVars, serviceVars, pageVars, notifyVars,
                   prefVars>>

\* a click on the button of an injected header: toggleSort(columnType)
ToggleSort(columnType) ==
    /\ headerButtons[columnType] # 0
    /\ currentDirection' =
           NewDirection(columnType, currentColumn, currentDirection)
    /\ IF currentDirection' # "null"
       THEN /\ currentColumn' = columnType
            /\ tbody' = _sortTable(tbody, columnType, currentDirection')
       ELSE /\ currentColumn' = "null"
            /\ tbody' = _restoreOriginalOrder(tbody)
    /\ streak' = IF currentColumn = "null" THEN 1
                 ELSE IF currentColumn = columnType /\ streak \in {1, 2}
                      THEN streak + 1
                      ELSE 0
    /\ orderBefore' = IF currentColumn = "null" THEN RowOrder(tbody)
                      ELSE IF streak' = 0 THEN <<>>
                      ELSE orderBefore
    /\ UNCHANGED headerButtons
    /\ UNCHANGED <<matchVars, textVars, serviceVars, pageVars, notifyVars,
                   prefVars>>

\* the list in reverse
Reverse(list) == [i \in 1..Len(list) |-> list[Len(list) + 1 - i]]

\* a click on a native header: the capturing listener calls clearSort(),
\* which leaves the rows where they are, and the page sorts its rows
NativeHeaderClick ==
    /\ currentColumn' = "null"
    /\ currentDirection' = "null"
    /\ tbody' = Reverse(tbody)
    /\ streak' = 0
    /\ orderBefore' = <<>>
    /\ UNCHANGED headerButtons
    /\ UNCHANGED <<matchVars, textVars, serviceVars, pageVars, notifyVars,
                   prefVars>>

\* reset()
Reset ==
    /\ currentColumn' = "null"
    /\ currentDirection' = "null"
    /\ headerButtons' = [c \in SortColumns |-> 0]
    /\ streak' = 0
    /\ orderBefore' = <<>>
    /\ UNCHANGED tbody
    /\ UNCHANGED <<matchVars, textVars, serviceVars, pageVars, notifyVars,
                   prefVars>>

\* the page renders one more row, before the rows it has
PageAddsSortRow ==
    /\ Len(tbody) < MaxSortRows
    /\ tbody' = <<Row(Len(tbody) + 1)>> \o tbody
    /\ streak' = 0
    /\ orderBefore' = <<>>
    /\ UNCHANGED <<currentColumn, currentDirection, headerButtons>>
    /\ UNCHANGED <<matchVars, textVars, serviceVars, pageVars, notifyVars,
                   prefVars>>

NextSort ==
    \/ \E columnType \in SortColumns, button \in Buttons :
          RegisterHeader(columnType, button)
    \/ \E columnType \in SortColumns : ToggleSort(columnType)
    \/ NativeHeaderClick
    \/ Reset
    \/ PageAddsSortRow

SpecSort == InitSort /\ [][NextSort]_vars

(***************************************************************************)
(* Claims about sorting (SpecSort)                                         *)
(***************************************************************************)
\* the direction that follows a direction in the cycle
NextInCycle(direction) ==
    CASE direction = "null" -> "asc"
      [] direction = "asc" -> "desc"
      [] direction = "desc" -> "null"

\* C23: in every state currentColumn is null exactly when currentDirection
\* is null; toggleSort on the sorted column moves its direction along the
\* cycle unsorted -> asc -> desc -> unsorted, keeping the column unless
\* the cycle ends; toggleSort on any other column sets that column to asc.
C23_SortStateMachine ==
    [][/\ (currentColumn = "null") <=> (currentDirection = "null")
       /\ (currentColumn' = "null") <=> (currentDirection' = "null")
       /\ \A c \in SortColumns :
             ToggleSort(c)
                 => IF currentColumn = c
                    THEN /\ currentDirection' = NextInCycle(currentDirection)
                         /\ currentColumn' \in {c, "null"}
                    ELSE /\ currentColumn' = c
                         /\ currentDirection' = "asc"]_vars

\* one column went through asc and desc back to unsorted
C23_Witness ==
    /\ streak = 3
    /\ currentColumn = "null"
    /\ currentDirection = "null"
    /\ \E c \in SortColumns : headerButtons[c] = 2

\* C24: after three toggleSort calls in a row on one column from the
\* unsorted state the rows stand in the order they had before the first of
\* the three.
C24_ThreeTogglesRestoreOrder ==
    streak = 3 => RowOrder(tbody) = orderBefore

(***************************************************************************)
(* Column visibility.  A JavaScript object with column ids as its          *)
(* properties is a function from the ids it has to their values.           *)
(***************************************************************************)
\* result[CONFIG.COLUMN_VISIBILITY_KEY] when nothing is stored
NoStored == [absent |-> TRUE]

\* the objects a popup stored: each has some of the injected columns' ids
\* (the ids of the checkboxes of the popup that wrote it)
StoredObjects ==
    UNION {[S -> BOOLEAN] : S \in SUBSET InjectedColumns \ {{}}}

\* loadPreferences: currentColumnVisibility
loadPreferences(stored, ok) ==
    IF ok /\ stored # NoStored THEN stored ELSE DEFAULT_COLUMN_VISIBILITY

\* currentColumnVisibility[columnId] is truthy
Truthy(visibility, columnId) ==
    columnId \in DOMAIN visibility /\ visibility[columnId]

\* applyColumnVisibility: style.display of the headers and cells of each
\* injected column
applyColumnVisibility(visibility) ==
    [c \in InjectedColumns |-> IF Truthy(visibility, c) THEN "" ELSE "none"]

(***************************************************************************)
(* SpecPrefs: init() loads the preferences and applies the column          *)
(* visibility; the popup stores a visibility object and sends it           *)
(***************************************************************************)
InitPrefs ==
    /\ InitConstructed
    /\ InitPageVars
    /\ InitNotifyVars
    /\ InitSortVars
    /\ storedVisibility \in StoredObjects \cup {NoStored}
    /\ currentColumnVisibility = DEFAULT_COLUMN_VISIBILITY
    /\ display = [c \in InjectedColumns |-> ""]
    /\ prefs = "none"

\* init(): await loadPreferences(); the storage read succeeds or throws
LoadPreferences(ok) ==
    /\ prefs = "none"
    /\ currentColumnVisibility' = loadPreferences(storedVisibility, ok)
    /\ prefs' = "loaded"
    /\ UNCHANGED <<storedVisibility, display>>
    /\ UNCHANGED <<matchVars, textVars, serviceVars, pageVars, notifyVars,
                   sortVars>>

\* init(): applyColumnVisibility(), then the listener is added
ApplyColumnVisibility ==
    /\ prefs = "loaded"
    /\ display' = applyColumnVisibility(currentColumnVisibility)
    /\ prefs' = "listening"
    /\ UNCHANGED <<storedVisibility, currentColumnVisibility>>
    /\ UNCHANGED <<matchVars, textVars, serviceVars, pageVars, notifyVars,
                   sortVars>>

\* the popup's savePreference and the COLUMN_VISIBILITY_CHANGED handler
ColumnVisibilityChanged(value) ==
    /\ prefs = "listening"
    /\ storedVisibility' = value
    /\ currentColumnVisibility' = value
    /\ display' = applyColumnVisibility(value)
    /\ UNCHANGED prefs
    /\ UNCHANGED <<matchVars, textVars, serviceVars, pageVars, notifyVars,
                   sortVars>>

\* the applyColumnVisibility() that ends the PROVIDER_CHANGED handler
ProviderChangedReapplies ==
    /\ prefs = "listening"
    /\ display' = applyColumnVisibility(currentColumnVisibility)
    /\ UNCHANGED <<storedVisibility, currentColumnVisibility, prefs>>
    /\ UNCHANGED <<matchVars, textVars, serviceVars, pageVars, notifyVars,
                   sortVars>>

NextPrefs ==
    \/ \E ok \in BOOLEAN : LoadPreferences(ok)
    \/ ApplyColumnVisibility
    \/ \E value \in StoredObjects : ColumnVisibilityChanged(value)
    \/ ProviderChangedReapplies

SpecPrefs == InitPrefs /\ [][NextPrefs]_vars

(***************************************************************************)
(* Claims about column visibility (SpecPrefs)                              *)
(***************************************************************************)
\* C25: once the column visibility was applied, an injected column is
\* hidden only if the stored preference maps its id to false; a column
\* whose id the stored preference lacks is displayed.
C25_AbsentIdIsDisplayed ==
    prefs = "listening"
        => \A c \in InjectedColumns :
              display[c] = "none"
                  => /\ c \in DOMAIN storedVisibility
                     /\ storedVisibility[c] = FALSE

====
